---- MODULE Spec2Model ----
(***************************************************************************)
(* A model of coinbot (greg-czaplicki/coinbot): the copy-trading pipeline  *)
(* that mirrors the fills of a watched wallet.                             *)
(*                                                                         *)
(* Money is exact decimal in the code (decimal.Decimal); the model uses    *)
(* integers in one fixed unit.  Rates (error_rate) are in hundredths, so   *)
(* 0.2 is 20 and 0.1 is 10.  Python's None is the token None.              *)
(*                                                                         *)
(* One module, several specifications, one per component:                  *)
(*   SpecGuard     AutoKillGuard.evaluate over a KillSwitch                *)
(*   SpecRisk      WindowRiskTracker.check_and_apply                       *)
(*   SpecDedupe    SqliteDedupeStore.mark_seen called from two threads     *)
(*   SpecIntake    the activity poller and the trade-socket watcher        *)
(*                 publishing to main's ingress queue                      *)
(*   SpecPipeline  main's loop: queue.get, buckets, flush of due buckets   *)
(*                 (kill switch, policy, risk, submit), snapshot           *)
(*   SpecCoalescer IntentNetCoalescer: push, _flush_after, next_intent     *)
(*   SpecPolicy    IntentPolicy.apply on one call drawn at the start       *)
(*   SpecOrder     ClobOrderClient.submit_marketable_limit and the loop of *)
(*                 _post_with_retry                                        *)
(*   SpecMetrics   MetricsCollector driven by main's receive, flush and    *)
(*                 _emit_snapshot                                          *)
(*   SpecLifecycle OrderLifecycleStore under any order of its calls        *)
(*   SpecPnl       PnLTracker: set_mark, apply_fill, settle_market         *)
(*   SpecRun       the control flow of main: loop, stop signal, exceptions *)
(*                 of the stages, the watcher threads; SpecRunLive adds    *)
(*                 weak fairness of the main thread                        *)
(*   SpecPollRows  the activity poller on rows that _normalize turns down  *)
(*                 or fails on, with a fair poller thread                  *)
(*   SpecHandoff   the bounded ingress queue between producers and main    *)
(*   SpecBackoff   ReconnectingWsClient.run_forever and its backoff        *)
(*   SpecThreads   which thread writes which shared structure              *)
(*   SpecSdk       ClobOrderClient's SDK path: post, refresh, retry        *)
(*   SpecRiskDays  WindowRiskTracker while UTC midnights pass              *)
(*   SpecCycles    live mode: telemetry windows feeding AutoKillGuard      *)
(*   SpecTasks     IntentNetCoalescer's coroutines on one event loop       *)
(* Every specification constrains every variable; the variables of the     *)
(* components it does not drive stay at their initial value.               *)
(***************************************************************************)
EXTENDS Integers, Sequences, FiniteSets, TLC

VARIABLES
    \* decision_engine/kill_switch.py
    kill_switch,        \* KillSwitch._state: [active, reason]
    healthy_streak,     \* AutoKillGuard._healthy_streak
    thresholds,         \* AutoKillGuard._thresholds (AutoKillThresholds)
    evalTrace,          \* history: one record per evaluate call, in call order
    \* decision_engine/policy.py, WindowRiskTracker
    sizing,             \* WindowRiskTracker._sizing (SizingConfig caps)
    window_notional,    \* _window_notional: window id -> committed notional
    market_notional,    \* _market_notional: market id -> committed notional
    daily_notional,     \* _daily_notional
    riskIntent,         \* history: the intent of the last check_and_apply call
    riskSnap,           \* history: the RiskSnapshot it returned
    \* state_store/dedupe.py, SqliteDedupeStore over one database file
    processed_events,   \* committed rows of processed_events, by dedupe_key
    wal_writer,         \* the caller whose connection holds the write lock, or 0
    wal_pending,        \* caller -> dedupe keys it inserted and has not committed
    store_reopened,     \* caller -> it uses a store instance opened on the existing file
    mark_call,          \* caller -> its mark_seen call: [pc, dedupe_key, rowcount, index]
    markLog,            \* history: one record per executed INSERT, in execution order
    \* watcher/source_activity.py, watcher/source_ws.py, main.py (producers)
    activity,           \* the data API's activity rows of the wallet, newest first
    ws_feed,            \* fills the trade socket has yet to deliver
    source_checkpoint,  \* checkpoints row of the poller's stream, or None
    poller,             \* run_forever locals [pc, initialized, last_checkpoint, candidates] and history
    queue,              \* main's ingress Queue of TradeEvents
    enqueueLog,         \* history: every event the two producers put on the queue
    \* main.py, the orchestrator loop and its configuration
    copy_cfg,           \* cfg.copy: [coalesce_ms, net_opposite_trades]
    execution,          \* cfg.execution: [max_slippage_bps, near_expiry_cutoff_seconds, dry_run]
    policy_sizing,      \* IntentPolicy._sizing: the SizingConfig fields apply reads
    now_ms,             \* the wall clock, int(time.time() * 1000)
    produced,           \* events the producers have published so far
    buckets,            \* buckets dict in insertion order: [key, events, first_seen_ms]
    loop,               \* the loop's position: [pc, due_keys]
    flushed,            \* history: what the bucket flushed last in this iteration led to
    consumed,           \* history: the ids of the events the loop's flushes have taken, in order
    \* decision_engine/coalescer.py, IntentNetCoalescer
    coalescer_cfg,      \* _cfg: [coalesce_ms, max_slippage_bps, net_opposite_trades]
    events_by_key,      \* _events_by_key, in insertion order: [key, events]
    timers,             \* _timers: the sleeping _flush_after tasks, [key, wake_ms]
    out,                \* _out: the asyncio.Queue of emitted intents
    pushed,             \* push calls so far
    last_flush,         \* history: the events and the result of the last _to_intent
    flushed_ids,        \* history: the ids of the events _flush_after has taken, in order
    \* decision_engine/policy.py, IntentPolicy
    policy_cfg,         \* [sizing, execution, max_source_staleness_ms]
    policy_call,        \* history: the last apply call and its DecisionResult
    \* executor/order_client.py, ClobOrderClient
    order_cfg,          \* [max_retries]
    submit_call,        \* the submit_marketable_limit call in progress or just returned
    prev_submit,        \* history: the call that returned before it
    \* telemetry/metrics.py, MetricsCollector as main's loop drives it
    metrics,            \* the collector's fields
    pending,            \* main's buckets: key -> correlation ids of the events in it
    received,           \* events taken off the queue so far
    submit_log,         \* history: one record per record_order_submit, in call order
    window_mark,        \* history: length of submit_log at the last snapshot_window
    last_ack,           \* history: the last submission's effect on the reject rate
    last_emit,          \* history: what the last _emit_snapshot read
    \* executor/order_client.py, OrderLifecycleStore
    orders,             \* _orders: client_order_id -> [status, filled_notional_usd]
    last_transition,    \* history: the last status change, [client_order_id, from, to]
    \* telemetry/pnl.py, PnLTracker
    pnl,                \* the tracker's fields: positions, marks, realized sums, fees
    pnl_fills,          \* apply_fill calls so far
    net_fills,          \* history: key -> signed sum of its fills since its last settlement
    last_settle,        \* history: the last settle_market call, the tracker before it, its result
    \* main.py, the control flow of main and of the watcher threads
    main_pc,            \* where the main thread is
    stop_event,         \* stop_event.is_set()
    run_queue,          \* events waiting in the ingress queue
    run_produced,       \* events the watchers have enqueued so far
    run_buckets,        \* coalesce buckets that hold events
    run_due,            \* due keys left to flush in this iteration
    threads,            \* the state of the poller thread and of the websocket thread
    run_log,            \* history: where the signal met main, gets after it, snapshots, the error raised
    \* main.py, the ingress Queue(maxsize=5000) between the producers and main
    queue_backlog,      \* events in the queue ahead of those listed in queue
    queue_drops,        \* history: the events _enqueue logged as event_queue_full
    delivered,          \* history: what queue.get returned, in order
    \* watcher/ws_client.py, ReconnectingWsClient.run_forever
    ws_client,          \* [pc, backoff_s, stop]: where the task is, its local, _stop_event
    ws_waits,           \* history: one record per sleep after a failure, [wait, after_connected]
    \* main.py, executor/market_cache.py: which thread writes which structure
    thread_pc,          \* thread -> [pc, keys]: where it is, the cache keys it has yet to load
    cache_map,          \* MarketMetadataCache._cache: key -> [state, by]
    handed,             \* events in the ingress queue
    thread_events,      \* events the two producers have handled so far
    writes,             \* history: structure -> the threads that have written it
    \* executor/order_client.py, ClobOrderClient on the SDK path
    sdk,                \* the _submit_with_py_clob call: [pc, has_client, posts, refreshes, derives, errors, result]
    sdk_log,            \* history: [posts, refreshes, errors, result] of the calls that returned
    \* decision_engine/policy.py, WindowRiskTracker over more than one UTC day
    utc_day,            \* UTC midnights that have passed since the process started
    day_admitted,       \* history: notional admitted since the last UTC midnight
    \* main.py, _emit_snapshot with the guard in live mode
    cycles_active,      \* history: snapshot cycles ended since the switch went active
    self_recovered,     \* history: the guard has deactivated the switch
    \* decision_engine/coalescer.py, IntentNetCoalescer as coroutines on one event loop
    co_events_by_key,   \* _events_by_key: key -> ids of the queued events
    co_timers,          \* _timers: key -> the registered flush task, 0 for no entry
    co_lock,            \* _lock: the coroutine holding it, 0 when free
    co_running,         \* the coroutine the event loop is running, 0 between coroutines
    co_push,            \* the push calls: n -> [pc, key]
    co_flush,           \* the _flush_after tasks: n -> [pc, events]
    co_taken            \* history: the event ids popped by flush tasks, with the task

guardVars == <<kill_switch, healthy_streak, thresholds, evalTrace>>
riskVars == <<sizing, window_notional, market_notional, daily_notional,
              riskIntent, riskSnap>>
dedupeVars == <<processed_events, wal_writer, wal_pending, store_reopened,
                mark_call, markLog>>
intakeVars == <<activity, ws_feed, source_checkpoint, poller, queue, enqueueLog>>
pipelineVars == <<copy_cfg, execution, policy_sizing, now_ms, produced, buckets,
                  loop, flushed, consumed>>
coalescerVars == <<coalescer_cfg, events_by_key, timers, out, pushed, last_flush,
                   flushed_ids>>
policyVars == <<policy_cfg, policy_call>>
orderVars == <<order_cfg, submit_call, prev_submit>>
metricsVars == <<metrics, pending, received, submit_log, window_mark, last_ack,
                 last_emit>>
lifecycleVars == <<orders, last_transition>>
pnlVars == <<pnl, pnl_fills, net_fills, last_settle>>
runVars == <<main_pc, stop_event, run_queue, run_produced, run_buckets,
             run_due, threads, run_log>>
backoffVars == <<ws_client, ws_waits>>
threadsVars == <<thread_pc, cache_map, handed, thread_events, writes>>
sdkVars == <<sdk, sdk_log>>
daysVars == <<utc_day, day_admitted>>
cyclesVars == <<cycles_active, self_recovered>>
tasksVars == <<co_events_by_key, co_timers, co_lock, co_running, co_push, co_flush,
              co_taken>>
earlyVars == <<guardVars, riskVars, dedupeVars, intakeVars, pipelineVars,
               coalescerVars, policyVars, orderVars, metricsVars,
               lifecycleVars, pnlVars, runVars>>
handoffVars == <<queue_backlog, queue_drops, delivered>>
lateVars == <<handoffVars, backoffVars, threadsVars, sdkVars, daysVars, cyclesVars, tasksVars>>
handoffOtherVars == <<backoffVars, threadsVars, sdkVars, daysVars, cyclesVars, tasksVars>>
backoffOtherVars == <<handoffVars, threadsVars, sdkVars, daysVars, cyclesVars, tasksVars>>
threadsOtherVars == <<handoffVars, backoffVars, sdkVars, daysVars, cyclesVars, tasksVars>>
sdkOtherVars == <<handoffVars, backoffVars, threadsVars, daysVars, cyclesVars, tasksVars>>
daysOtherVars == <<handoffVars, backoffVars, threadsVars, sdkVars, cyclesVars, tasksVars>>
cyclesOtherVars == <<handoffVars, backoffVars, threadsVars, sdkVars, daysVars, tasksVars>>
tasksOtherVars == <<handoffVars, backoffVars, threadsVars, sdkVars, daysVars, cyclesVars>>
supportVars == <<pnlVars, runVars, lateVars>>
downstreamVars == <<policyVars, orderVars, metricsVars, lifecycleVars,
                    supportVars>>
vars == <<guardVars, riskVars, dedupeVars, intakeVars, pipelineVars,
          coalescerVars, downstreamVars>>

None == "~None"

(***************************************************************************)
(* Bounds of the model.                                                    *)
(***************************************************************************)
MaxEvals == 5       \* evaluate calls recorded in one behaviour of SpecGuard
MaxRecovery == 2    \* recovery_consecutive_snapshots ranges over 1..MaxRecovery
MaxCap == 3         \* each notional cap ranges over 1..MaxCap
MaxTarget == 2      \* an intent's target_notional_usd ranges over 1..MaxTarget
MaxMarkCalls == 3   \* mark_seen calls in one behaviour of SpecDedupe
MaxProduced == 2    \* events published in one behaviour of SpecPipeline
MaxPushed == 2      \* push calls in one behaviour of SpecCoalescer
MaxTicks == 1       \* clock ticks in one behaviour of SpecPipeline
MaxFills == 3       \* fills of the source wallet in one behaviour of SpecIntake
MaxPollFaults == 1  \* failed mark_seen calls and restarts in one behaviour of SpecIntake
MaxGets == 2        \* successful queue.get calls in one behaviour of SpecHandoff
MaxWsFailures == 7  \* failures of the websocket connection in one behaviour of SpecBackoff
MaxThreadEvents == 2  \* events the producers handle in one behaviour of SpecThreads
MaxSdkCalls == 2    \* submissions on the SDK path in one behaviour of SpecSdk
MaxMidnights == 1   \* UTC midnights in one behaviour of SpecRiskDays
MaxTaskPushes == 3  \* push calls in one behaviour of SpecTasks

(***************************************************************************)
(* decision_engine/kill_switch.py                                          *)
(***************************************************************************)
\* AutoKillThresholds defaults (error rates in hundredths).
max_error_rate == 20
max_p95_latency_ms == 1200
recover_max_error_rate == 10
recover_max_p95_latency_ms == 800

AutoKillThresholds(n) ==
    [max_error_rate |-> max_error_rate,
     max_p95_latency_ms |-> max_p95_latency_ms,
     recover_max_error_rate |-> recover_max_error_rate,
     recover_max_p95_latency_ms |-> recover_max_p95_latency_ms,
     recovery_consecutive_snapshots |-> n]

\* KillSwitchState()
KillSwitchState == [active |-> FALSE, reason |-> ""]

\* KillSwitch.activate(reason)
activate(reason) == [active |-> TRUE, reason |-> reason]

\* KillSwitch.deactivate()
deactivate == [active |-> FALSE, reason |-> ""]

\* The readings a telemetry snapshot can carry: each threshold's boundary
\* value, where > and >= differ, and the value above the activation threshold.
ErrorRates == {recover_max_error_rate, max_error_rate, max_error_rate + 1}
Latencies == {recover_max_p95_latency_ms, max_p95_latency_ms,
              max_p95_latency_ms + 1}

\* evaluate with the two activation tests in the other order.
evaluate_latency_first(ks, streak, th, error_rate, p95_latency_ms) ==
    IF p95_latency_ms > th.max_p95_latency_ms
    THEN [ks |-> activate("auto_latency_threshold"), streak |-> 0]
    ELSE IF error_rate > th.max_error_rate
    THEN [ks |-> activate("auto_error_rate_threshold"), streak |-> 0]
    ELSE IF ks.active
    THEN IF error_rate <= th.recover_max_error_rate
            /\ p95_latency_ms <= th.recover_max_p95_latency_ms
         THEN IF streak + 1 >= th.recovery_consecutive_snapshots
              THEN [ks |-> deactivate, streak |-> 0]
              ELSE [ks |-> ks, streak |-> streak + 1]
         ELSE [ks |-> ks, streak |-> 0]
    ELSE [ks |-> ks, streak |-> streak]

\* evaluate without the reset of the streak on a reading that is not healthy.
evaluate_no_streak_reset(ks, streak, th, error_rate, p95_latency_ms) ==
    IF error_rate > th.max_error_rate
    THEN [ks |-> activate("auto_error_rate_threshold"), streak |-> 0]
    ELSE IF p95_latency_ms > th.max_p95_latency_ms
    THEN [ks |-> activate("auto_latency_threshold"), streak |-> 0]
    ELSE IF ks.active
    THEN IF error_rate <= th.recover_max_error_rate
            /\ p95_latency_ms <= th.recover_max_p95_latency_ms
         THEN IF streak + 1 >= th.recovery_consecutive_snapshots
              THEN [ks |-> deactivate, streak |-> 0]
              ELSE [ks |-> ks, streak |-> streak + 1]
         ELSE [ks |-> ks, streak |-> streak]
    ELSE [ks |-> ks, streak |-> streak]

\* The body of AutoKillGuard.evaluate: the switch and the streak after the call.
evaluate(ks, streak, th, error_rate, p95_latency_ms) ==
    IF error_rate > th.max_error_rate
    THEN [ks |-> activate("auto_error_rate_threshold"), streak |-> 0]
    ELSE IF p95_latency_ms > th.max_p95_latency_ms
    THEN [ks |-> activate("auto_latency_threshold"), streak |-> 0]
    ELSE IF ks.active
    THEN IF error_rate <= th.recover_max_error_rate
            /\ p95_latency_ms <= th.recover_max_p95_latency_ms
         THEN IF streak + 1 >= th.recovery_consecutive_snapshots
              THEN [ks |-> deactivate, streak |-> 0]
              ELSE [ks |-> ks, streak |-> streak + 1]
         ELSE [ks |-> ks, streak |-> 0]
    ELSE [ks |-> ks, streak |-> streak]

\* AutoKillGuard(KillSwitch(), thresholds)
GuardInit(recoveries) ==
    /\ kill_switch = KillSwitchState
    /\ healthy_streak = 0
    /\ thresholds \in {AutoKillThresholds(n) : n \in recoveries}
    /\ evalTrace = <<>>

\* One call guard.evaluate(error_rate=..., p95_latency_ms=...).
Evaluate(error_rate, p95_latency_ms) ==
    LET r == evaluate(kill_switch, healthy_streak, thresholds,
                      error_rate, p95_latency_ms)
    IN /\ Len(evalTrace) < MaxEvals
       /\ kill_switch' = r.ks
       /\ healthy_streak' = r.streak
       /\ evalTrace' = Append(evalTrace,
                              [error_rate |-> error_rate,
                               p95_latency_ms |-> p95_latency_ms,
                               active |-> r.ks.active,
                               reason |-> r.ks.reason,
                               streak |-> r.streak])
       /\ UNCHANGED thresholds

(***************************************************************************)
(* decision_engine/policy.py, WindowRiskTracker                            *)
(***************************************************************************)
WindowIds == {None, "w1"}       \* ExecutionIntent.window_id
MarketIds == {"m1", "m2"}       \* ExecutionIntent.market_id

\* window_id = intent.window_id or "na"
WindowKey(window_id) == IF window_id = None \/ window_id = "" THEN "na" ELSE window_id
WindowKeys == {WindowKey(w) : w \in WindowIds}

\* SizingConfig: the three caps WindowRiskTracker reads (validate_config: each > 0).
SizingConfigs(caps) ==
    [max_total_notional_per_15m_window_usd : caps,
     max_notional_per_market_usd : caps,
     max_daily_traded_volume_usd : caps]

RiskSnapshot(today, window, exposure, blocked, reason) ==
    [total_notional_today_usd |-> today,
     total_notional_current_15m_window_usd |-> window,
     market_exposure_usd |-> exposure,
     blocked |-> blocked,
     blocked_reason |-> reason]

\* check_and_apply with the market cap tested before the window cap.
check_and_apply_market_first(wn, mn, dn, sz, intent) ==
    LET window_id == WindowKey(intent.window_id)
        current == wn[window_id]
        projected == current + intent.target_notional_usd
        market_current == mn[intent.market_id]
        market_projected == market_current + intent.target_notional_usd
        daily_projected == dn + intent.target_notional_usd
        same(snap) == [window_notional |-> wn, market_notional |-> mn,
                       daily_notional |-> dn, snap |-> snap]
    IN IF market_projected > sz.max_notional_per_market_usd
       THEN same(RiskSnapshot(dn, current, {<<intent.market_id, market_current>>},
                              TRUE, "market_cap_exceeded"))
       ELSE IF projected > sz.max_total_notional_per_15m_window_usd
       THEN same(RiskSnapshot(0, current, {}, TRUE, "window_cap_exceeded"))
       ELSE IF daily_projected > sz.max_daily_traded_volume_usd
       THEN same(RiskSnapshot(dn, current, {<<intent.market_id, market_current>>},
                              TRUE, "daily_cap_exceeded"))
       ELSE [window_notional |-> [wn EXCEPT ![window_id] = projected],
             market_notional |-> [mn EXCEPT ![intent.market_id] = market_projected],
             daily_notional |-> daily_projected,
             snap |-> RiskSnapshot(daily_projected, projected,
                                   {<<intent.market_id, market_projected>>},
                                   FALSE, "")]

\* check_and_apply without the daily cap test.
check_and_apply_no_daily(wn, mn, dn, sz, intent) ==
    LET window_id == WindowKey(intent.window_id)
        current == wn[window_id]
        projected == current + intent.target_notional_usd
        market_current == mn[intent.market_id]
        market_projected == market_current + intent.target_notional_usd
        daily_projected == dn + intent.target_notional_usd
        same(snap) == [window_notional |-> wn, market_notional |-> mn,
                       daily_notional |-> dn, snap |-> snap]
    IN IF projected > sz.max_total_notional_per_15m_window_usd
       THEN same(RiskSnapshot(0, current, {}, TRUE, "window_cap_exceeded"))
       ELSE IF market_projected > sz.max_notional_per_market_usd
       THEN same(RiskSnapshot(dn, current, {<<intent.market_id, market_current>>},
                              TRUE, "market_cap_exceeded"))
       ELSE [window_notional |-> [wn EXCEPT ![window_id] = projected],
             market_notional |-> [mn EXCEPT ![intent.market_id] = market_projected],
             daily_notional |-> daily_projected,
             snap |-> RiskSnapshot(daily_projected, projected,
                                   {<<intent.market_id, market_projected>>},
                                   FALSE, "")]

\* check_and_apply whose admitted snapshot holds the values before the
\* addition.
check_and_apply_snapshot_before(wn, mn, dn, sz, intent) ==
    LET window_id == WindowKey(intent.window_id)
        current == wn[window_id]
        projected == current + intent.target_notional_usd
        market_current == mn[intent.market_id]
        market_projected == market_current + intent.target_notional_usd
        daily_projected == dn + intent.target_notional_usd
        same(snap) == [window_notional |-> wn, market_notional |-> mn,
                       daily_notional |-> dn, snap |-> snap]
    IN IF projected > sz.max_total_notional_per_15m_window_usd
       THEN same(RiskSnapshot(0, current, {}, TRUE, "window_cap_exceeded"))
       ELSE IF market_projected > sz.max_notional_per_market_usd
       THEN same(RiskSnapshot(dn, current, {<<intent.market_id, market_current>>},
                              TRUE, "market_cap_exceeded"))
       ELSE IF daily_projected > sz.max_daily_traded_volume_usd
       THEN same(RiskSnapshot(dn, current, {<<intent.market_id, market_current>>},
                              TRUE, "daily_cap_exceeded"))
       ELSE [window_notional |-> [wn EXCEPT ![window_id] = projected],
             market_notional |-> [mn EXCEPT ![intent.market_id] = market_projected],
             daily_notional |-> daily_projected,
             snap |-> RiskSnapshot(dn, current,
                                   {<<intent.market_id, market_current>>},
                                   FALSE, "")]

\* check_and_apply that tests the caps and leaves the addition to a later
\* commit.
check_and_apply_uncommitted(wn, mn, dn, sz, intent) ==
    LET window_id == WindowKey(intent.window_id)
        current == wn[window_id]
        projected == current + intent.target_notional_usd
        market_current == mn[intent.market_id]
        market_projected == market_current + intent.target_notional_usd
        daily_projected == dn + intent.target_notional_usd
        same(snap) == [window_notional |-> wn, market_notional |-> mn,
                       daily_notional |-> dn, snap |-> snap]
    IN IF projected > sz.max_total_notional_per_15m_window_usd
       THEN same(RiskSnapshot(0, current, {}, TRUE, "window_cap_exceeded"))
       ELSE IF market_projected > sz.max_notional_per_market_usd
       THEN same(RiskSnapshot(dn, current, {<<intent.market_id, market_current>>},
                              TRUE, "market_cap_exceeded"))
       ELSE IF daily_projected > sz.max_daily_traded_volume_usd
       THEN same(RiskSnapshot(dn, current, {<<intent.market_id, market_current>>},
                              TRUE, "daily_cap_exceeded"))
       ELSE same(RiskSnapshot(daily_projected, projected,
                              {<<intent.market_id, market_projected>>},
                              FALSE, ""))

\* WindowRiskTracker.check_and_apply(intent): the counters after the call and
\* the snapshot returned.  A dict's .get(key, 0) is a function that is 0 where
\* the dict has no entry.
check_and_apply(wn, mn, dn, sz, intent) ==
    LET window_id == WindowKey(intent.window_id)
        current == wn[window_id]
        projected == current + intent.target_notional_usd
        market_current == mn[intent.market_id]
        market_projected == market_current + intent.target_notional_usd
        daily_projected == dn + intent.target_notional_usd
        same(snap) == [window_notional |-> wn, market_notional |-> mn,
                       daily_notional |-> dn, snap |-> snap]
    IN IF projected > sz.max_total_notional_per_15m_window_usd
       THEN same(RiskSnapshot(0, current, {}, TRUE, "window_cap_exceeded"))
       ELSE IF market_projected > sz.max_notional_per_market_usd
       THEN same(RiskSnapshot(dn, current, {<<intent.market_id, market_current>>},
                              TRUE, "market_cap_exceeded"))
       ELSE IF daily_projected > sz.max_daily_traded_volume_usd
       THEN same(RiskSnapshot(dn, current, {<<intent.market_id, market_current>>},
                              TRUE, "daily_cap_exceeded"))
       ELSE [window_notional |-> [wn EXCEPT ![window_id] = projected],
             market_notional |-> [mn EXCEPT ![intent.market_id] = market_projected],
             daily_notional |-> daily_projected,
             snap |-> RiskSnapshot(daily_projected, projected,
                                   {<<intent.market_id, market_projected>>},
                                   FALSE, "")]

\* The intents the risk tracker is handed: the fields check_and_apply reads.
RiskIntents ==
    [window_id : WindowIds, market_id : MarketIds,
     target_notional_usd : 1..MaxTarget]

\* Before the first call the two history variables hold these.
NoIntentYet == [window_id |-> None, market_id |-> None, target_notional_usd |-> 0]
NoSnapshotYet == RiskSnapshot(0, 0, {}, FALSE, None)

\* WindowRiskTracker(sizing)
RiskInit(caps) ==
    /\ sizing \in SizingConfigs(caps)
    /\ window_notional = [w \in WindowKeys |-> 0]
    /\ market_notional = [m \in MarketIds |-> 0]
    /\ daily_notional = 0
    /\ riskIntent = NoIntentYet
    /\ riskSnap = NoSnapshotYet

\* One call risk_tracker.check_and_apply(intent).
CheckAndApply(intent) ==
    LET r == check_and_apply(window_notional, market_notional, daily_notional,
                             sizing, intent)
    IN /\ window_notional' = r.window_notional
       /\ market_notional' = r.market_notional
       /\ daily_notional' = r.daily_notional
       /\ riskIntent' = intent
       /\ riskSnap' = r.snap
       /\ UNCHANGED sizing

(***************************************************************************)
(* state_store/dedupe.py                                                   *)
(*                                                                         *)
(* Every call opens its own connection (_connect) in WAL journal mode.     *)
(* The INSERT opens a write transaction: SQLite admits one writer at a     *)
(* time, a second writer waits for the lock (and fails with "database is   *)
(* locked" when its busy timeout passes first), and a reader sees the      *)
(* committed rows only.  Only the key column of a row is read back by the  *)
(* code, so a row is its dedupe_key.                                       *)
(***************************************************************************)
Callers == {1, 2}       \* the threads that call the store (poller, ws watcher)

\* EventKey(event_id, market_id, seen_at_unix, tx_hash="", sequence="")
EventKeys ==
    [event_id : {"", "evt-1"}, market_id : {"m1"}, seen_at_unix : {1},
     tx_hash : {"", "0xabc"}, sequence : {"", "42"}]

\* build_dedupe_key(key)
build_dedupe_key(key) ==
    IF key.event_id # ""
    THEN "id:" \o key.event_id
    ELSE IF key.tx_hash # "" /\ key.sequence # ""
    THEN "txseq:" \o key.tx_hash \o ":" \o key.sequence
    ELSE IF key.tx_hash # ""
    THEN "tx:" \o key.tx_hash \o ":" \o key.market_id
    ELSE "fallback:" \o key.market_id \o ":" \o ToString(key.seen_at_unix)

DedupeKeys == {build_dedupe_key(k) : k \in EventKeys}

\* SqliteDedupeStore.already_seen(dedupe_key): a SELECT on a fresh connection.
already_seen(dedupe_key) == dedupe_key \in processed_events

\* INSERT OR REPLACE: the row is written whether or not the key is present.
insert_or_replace_rowcount(rows, dedupe_key) == 1

\* cursor.rowcount of INSERT OR IGNORE INTO processed_events: 1 when the row
\* was inserted, 0 when the primary key was present and the row ignored.
insert_or_ignore_rowcount(rows, dedupe_key) ==
    IF dedupe_key \in rows THEN 0 ELSE 1

\* A store whose writers are not serialised.
write_lock_ignored(p) == TRUE

\* SQLite's single-writer rule: caller p may open a write transaction.
write_lock_free(p) == wal_writer = 0

NoCall == [pc |-> "idle", dedupe_key |-> "", rowcount |-> 0, index |-> 0]

\* SqliteDedupeStore(db_path) on an empty file: CREATE TABLE IF NOT EXISTS.
DedupeInit ==
    /\ processed_events = {}
    /\ wal_writer = 0
    /\ wal_pending = [p \in Callers |-> {}]
    /\ store_reopened = [p \in Callers |-> FALSE]
    /\ mark_call = [p \in Callers |-> NoCall]
    /\ markLog = <<>>

\* SqliteDedupeStore(db_path) again on the same file (a restart): the schema
\* script creates nothing, the rows stay.  Caller p uses the new instance.
Reopen(p) ==
    /\ mark_call[p].pc = "idle"
    /\ ~store_reopened[p]
    /\ store_reopened' = [store_reopened EXCEPT ![p] = TRUE]
    /\ UNCHANGED <<processed_events, wal_writer, wal_pending, mark_call, markLog>>

\* mark_seen, lines 50-51: build the key and connect.
MarkSeenBegin(p, key) ==
    /\ mark_call[p].pc = "idle"
    /\ Len(markLog) + Cardinality({q \in Callers : mark_call[q].pc = "connected"})
         < MaxMarkCalls
    /\ mark_call' = [mark_call EXCEPT ![p] =
           [pc |-> "connected", dedupe_key |-> build_dedupe_key(key),
            rowcount |-> 0, index |-> 0]]
    /\ UNCHANGED <<processed_events, wal_writer, wal_pending, store_reopened,
                   markLog>>

\* mark_seen, lines 52-66: conn.execute(INSERT OR IGNORE ...).
MarkSeenExecute(p) ==
    LET c == mark_call[p]
        rc == insert_or_ignore_rowcount(processed_events \cup wal_pending[p],
                                        c.dedupe_key)
    IN /\ c.pc = "connected"
       /\ write_lock_free(p)
       /\ wal_writer' = p
       /\ wal_pending' = [wal_pending EXCEPT ![p] =
              IF rc = 1 THEN @ \cup {c.dedupe_key} ELSE @]
       /\ mark_call' = [mark_call EXCEPT ![p].pc = "executed",
                                         ![p].rowcount = rc,
                                         ![p].index = Len(markLog) + 1]
       /\ markLog' = Append(markLog,
              [dedupe_key |-> c.dedupe_key, rowcount |-> rc,
               reopened |-> store_reopened[p],
               concurrent |-> \E q \in Callers \ {p} :
                                 /\ mark_call[q].pc # "idle"
                                 /\ mark_call[q].dedupe_key = c.dedupe_key,
               returned |-> FALSE, result |-> FALSE])
       /\ UNCHANGED <<processed_events, store_reopened>>

\* conn.execute fails with "database is locked": the writer kept the lock longer
\* than the busy timeout.  The exception leaves mark_seen; nothing was written.
MarkSeenLocked(p) ==
    /\ mark_call[p].pc = "connected"
    /\ wal_writer \notin {0, p}
    /\ mark_call' = [mark_call EXCEPT ![p] = NoCall]
    /\ UNCHANGED <<processed_events, wal_writer, wal_pending, store_reopened,
                   markLog>>

\* mark_seen, lines 67-68: conn.commit(); return cursor.rowcount == 1.
MarkSeenCommitReturn(p) ==
    LET c == mark_call[p]
    IN /\ c.pc = "executed"
       /\ processed_events' = processed_events \cup wal_pending[p]
       /\ wal_pending' = [wal_pending EXCEPT ![p] = {}]
       /\ wal_writer' = IF wal_writer = p THEN 0 ELSE wal_writer
       /\ mark_call' = [mark_call EXCEPT ![p] = NoCall]
       /\ markLog' = [markLog EXCEPT ![c.index].returned = TRUE,
                                     ![c.index].result = (c.rowcount = 1)]
       /\ UNCHANGED store_reopened

(***************************************************************************)
(* watcher/source_activity.py, watcher/source_ws.py and their wiring in     *)
(* main.py: the two producers of the ingress queue.                         *)
(***************************************************************************)
QueueMaxsize == 5000    \* Queue(maxsize=5000)

Sides == {"BUY", "SELL"}

\* TradeEvent.window of an event whose market title names no window (None).
NoWindow == [window_id |-> None, end_s |-> 0]

\* The activity row and the trade-socket row of the n-th fill of the wallet.
\* Both carry the upstream id of the fill.
RawRow(n) ==
    [id |-> "e" \o ToString(n), market |-> "m1", transactionHash |-> "0xabc",
     timestamp |-> n, usdcSize |-> 5, side |-> "BUY", outcome |-> "Up",
     price |-> "0.5"]

\* The rows upstream can send for the n-th fill: a complete row, a row with
\* no market field at all (market, marketId, conditionId, asset), a row whose
\* price is not a number.
RowKinds == {"ok", "no_market", "bad_price"}
Row(n, kind) ==
    IF kind = "no_market" THEN [RawRow(n) EXCEPT !.market = ""]
    ELSE IF kind = "bad_price" THEN [RawRow(n) EXCEPT !.price = "abc"]
    ELSE RawRow(n)
\* The strings of the model that Decimal(str(...)) accepts; for any other it
\* raises decimal.InvalidOperation.
DecimalStrings == {"0.5", "0"}

TradeEvent(event_id, market_id, outcome, side, notional_usd, executed_ts, window, source_path) ==
    [event_id |-> event_id, market_id |-> market_id, outcome |-> outcome,
     side |-> side, notional_usd |-> notional_usd, executed_ts |-> executed_ts,
     window |-> window, source_path |-> source_path]

\* _raw_event_id(raw)
raw_event_id(raw) ==
    IF raw.id # "" THEN raw.id
    ELSE raw.transactionHash \o ":" \o raw.market \o ":"
             \o ToString(raw.timestamp) \o ":" \o ToString(raw.usdcSize)

\* _normalize, lines 155-163: no market id, return None.
normalize_returns_none(raw) == raw.market = ""
\* _normalize, line 176: Decimal(str(raw.get("price", "0"))) is not inside a
\* try, and neither are the Decimal calls for size and amount (177-178).
normalize_raises(raw) == raw.market # "" /\ raw.price \notin DecimalStrings
\* A row that _normalize turns into a TradeEvent.
normalizes(raw) == ~normalize_returns_none(raw) /\ ~normalize_raises(raw)

\* SourceWalletActivityPoller._normalize(raw): None without a market id.
normalize(raw) ==
    IF raw.market = "" THEN None
    ELSE TradeEvent(raw_event_id(raw), raw.market, raw.outcome,
                    IF raw.side = "BUY" THEN "BUY" ELSE "SELL",
                    raw.usdcSize, raw.timestamp, NoWindow, "activity_api")

\* source_ws._normalize_trade(raw, source_wallet)
normalize_trade(raw) ==
    IF raw.market = "" THEN None
    ELSE TradeEvent(
           IF raw.id # "" THEN raw.id
           ELSE raw.transactionHash \o ":" \o raw.market \o ":"
                    \o ToString(raw.timestamp) \o ":" \o ToString(raw.usdcSize),
           raw.market, raw.outcome,
           IF raw.side \in {"BUY", "BID"} THEN "BUY" ELSE "SELL",
           raw.usdcSize, raw.timestamp, NoWindow, "clob_ws")

\* The EventKey the poller hands to mark_seen for an event and its raw row.
PollerEventKey(event, raw) ==
    [event_id |-> event.event_id, market_id |-> event.market_id,
     seen_at_unix |-> 1, tx_hash |-> raw.transactionHash, sequence |-> ""]

\* main._enqueue: queue.put(event, timeout=1); a full queue drops the event.
\* The queue holds queue_backlog older events ahead of those in q.
enqueue_unbounded(q, event) == Append(q, event)
enqueue(q, event) ==
    IF queue_backlog + Len(q) < QueueMaxsize THEN Append(q, event) ELSE q

\* The candidates in the order of the fetched list, newest first.
candidates_newest_first(events, last_checkpoint) ==
    LET at == {i \in 1..Len(events) :
                 last_checkpoint # None /\ raw_event_id(events[i]) = last_checkpoint}
        k == IF at = {} THEN Len(events) + 1
             ELSE CHOOSE i \in at : \A j \in at : i <= j
    IN SubSeq(events, 1, k - 1)

\* The rows of events ahead of the checkpoint row, oldest first.
RECURSIVE candidates_of(_, _)
candidates_of(events, last_checkpoint) ==
    IF events = <<>> THEN <<>>
    ELSE IF last_checkpoint # None /\ raw_event_id(Head(events)) = last_checkpoint
    THEN <<>>
    ELSE Append(candidates_of(Tail(events), last_checkpoint), Head(events))

\* The locals of run_forever after lines 54-55 for a stored checkpoint value
\* (None without a row), with the history fields: the anchor taken, the
\* errors logged, the row whose mark_seen raised last and was not processed
\* since, the row skipped last as already seen, the restarts.
PollerStart(stored, history) ==
    [pc |-> "fetch", initialized |-> stored # None, last_checkpoint |-> stored,
     candidates |-> <<>>, anchor |-> history.anchor, errors |-> history.errors,
     failed |-> history.failed, skipped |-> history.skipped,
     restarts |-> history.restarts]
NoPollHistory ==
    [anchor |-> "", errors |-> 0, failed |-> "", skipped |-> "", restarts |-> 0]

\* SqliteCheckpointStore.get on a database without a row; run_forever line 54-55.
IntakeInit ==
    /\ activity = <<>>
    /\ ws_feed = {}
    /\ source_checkpoint = None
    /\ poller = PollerStart(None, NoPollHistory)
    /\ queue = <<>>
    /\ enqueueLog = <<>>

\* The source wallet trades: the fill heads the activity list and is sent on
\* the trade socket.
SourceFill ==
    /\ Len(activity) < MaxFills
    /\ activity' = <<RawRow(Len(activity) + 1)>> \o activity
    /\ ws_feed' = ws_feed \cup {Len(activity) + 1}
    /\ UNCHANGED <<source_checkpoint, poller, queue, enqueueLog, processed_events>>

\* The same with a row of any kind at the head of the activity list.
SourceFillRow(kind) ==
    /\ Len(activity) < MaxFills
    /\ activity' = <<Row(Len(activity) + 1, kind)>> \o activity
    /\ ws_feed' = ws_feed \cup {Len(activity) + 1}
    /\ UNCHANGED <<source_checkpoint, poller, queue, enqueueLog, processed_events>>

\* A first fetch that is handled like any other: every row is a candidate.
PollFetch_no_anchor ==
    /\ poller.pc = "fetch"
    /\ LET c == candidates_of(activity, poller.last_checkpoint)
       IN poller' = [poller EXCEPT !.candidates = c, !.initialized = activity # <<>>,
                        !.pc = IF c = <<>> THEN "fetch" ELSE "mark_seen"]
    /\ UNCHANGED <<activity, ws_feed, source_checkpoint, queue, enqueueLog,
                   processed_events>>

\* run_forever, lines 58-79: fetch; anchor on the first non-empty fetch of a
\* stream without a checkpoint; otherwise collect the candidates.
PollFetch ==
    /\ poller.pc = "fetch"
    /\ IF ~poller.initialized /\ activity # <<>>
       THEN /\ source_checkpoint' = raw_event_id(Head(activity))
            /\ poller' = [poller EXCEPT !.initialized = TRUE,
                             !.last_checkpoint = raw_event_id(Head(activity)),
                             !.anchor = raw_event_id(Head(activity))]
       ELSE LET c == candidates_of(activity, poller.last_checkpoint)
            IN /\ poller' = [poller EXCEPT !.candidates = c,
                                !.pc = IF c = <<>> THEN "fetch" ELSE "mark_seen"]
               /\ UNCHANGED source_checkpoint
    /\ UNCHANGED <<activity, ws_feed, queue, enqueueLog, processed_events>>

\* run_forever, lines 81-116: normalize the oldest candidate and mark it seen.
PollMarkSeen ==
    LET raw == Head(poller.candidates)
        event == normalize(raw)
        k == build_dedupe_key(PollerEventKey(event, raw))
        inserted == insert_or_ignore_rowcount(processed_events, k) = 1
    IN /\ poller.pc = "mark_seen"
       /\ normalizes(raw)
       /\ processed_events' = processed_events \cup {k}
       /\ poller' = [poller EXCEPT !.pc = IF inserted THEN "publish"
                                          ELSE "checkpoint",
                                   !.skipped = IF inserted THEN @ ELSE event.event_id]
       /\ UNCHANGED <<activity, ws_feed, source_checkpoint, queue, enqueueLog>>

\* A failed mark_seen after which the poller goes on to the next row.
PollMarkSeenError_skips_row ==
    LET event == normalize(Head(poller.candidates))
    IN /\ poller.pc = "mark_seen"
       /\ normalizes(Head(poller.candidates))
       /\ poller.errors + poller.restarts < MaxPollFaults
       /\ poller' = [poller EXCEPT !.pc = "checkpoint", !.errors = @ + 1,
                                   !.failed = event.event_id]
       /\ UNCHANGED <<activity, ws_feed, source_checkpoint, queue, enqueueLog,
                      processed_events>>

\* run_forever, lines 104-123: mark_seen raises (sqlite3.OperationalError, the
\* database is locked or cannot be written; the transaction is not
\* committed).  The exception leaves the for loop, is logged as
\* source_poller_error, and after a sleep the while loop fetches again.
PollMarkSeenError ==
    LET event == normalize(Head(poller.candidates))
    IN /\ poller.pc = "mark_seen"
       /\ normalizes(Head(poller.candidates))
       /\ poller.errors + poller.restarts < MaxPollFaults
       /\ poller' = [poller EXCEPT !.pc = "fetch", !.candidates = <<>>,
                                   !.errors = @ + 1, !.failed = event.event_id]
       /\ UNCHANGED <<activity, ws_feed, source_checkpoint, queue, enqueueLog,
                      processed_events>>

\* run_forever, lines 82-85: _normalize returns None and the loop continues
\* with the next candidate; the checkpoint is not set to the skipped row.
PollNormalizeSkip ==
    LET rest == Tail(poller.candidates)
    IN /\ poller.pc = "mark_seen"
       /\ normalize_returns_none(Head(poller.candidates))
       /\ poller' = [poller EXCEPT !.candidates = rest,
                        !.pc = IF rest = <<>> THEN "fetch" ELSE "mark_seen"]
       /\ UNCHANGED <<activity, ws_feed, source_checkpoint, queue, enqueueLog,
                      processed_events>>

\* run_forever, line 82 and 121-123: _normalize raises InvalidOperation; the
\* exception leaves the for loop, is logged as source_poller_error, and after
\* a sleep the while loop fetches again from the same checkpoint.
PollNormalizeError ==
    /\ poller.pc = "mark_seen"
    /\ normalize_raises(Head(poller.candidates))
    /\ poller' = [poller EXCEPT !.pc = "fetch", !.candidates = <<>>]
    /\ UNCHANGED <<activity, ws_feed, source_checkpoint, queue, enqueueLog,
                   processed_events>>

\* run_forever, line 117: self._on_trade_event(event), which is main._enqueue.
PollPublish ==
    LET event == normalize(Head(poller.candidates))
    IN /\ poller.pc = "publish"
       /\ queue' = enqueue(queue, event)
       /\ enqueueLog' = IF queue' # queue THEN Append(enqueueLog, event)
                        ELSE enqueueLog
       /\ poller' = [poller EXCEPT !.pc = "checkpoint"]
       /\ UNCHANGED <<activity, ws_feed, source_checkpoint, processed_events>>

\* run_forever, lines 113-115 and 118-119: advance the checkpoint to the event.
PollCheckpoint ==
    LET event == normalize(Head(poller.candidates))
        rest == Tail(poller.candidates)
    IN /\ poller.pc = "checkpoint"
       /\ source_checkpoint' = event.event_id
       /\ poller' = [poller EXCEPT !.last_checkpoint = event.event_id,
                        !.candidates = rest,
                        !.pc = IF rest = <<>> THEN "fetch" ELSE "mark_seen",
                        !.failed = IF @ = event.event_id THEN "" ELSE @]
       /\ UNCHANGED <<activity, ws_feed, queue, enqueueLog, processed_events>>

\* One step of the poller thread on rows of any kind.
PollerStep ==
    \/ PollFetch \/ PollNormalizeSkip \/ PollNormalizeError
    \/ PollMarkSeen \/ PollPublish \/ PollCheckpoint

\* The process ends at any point of the poller's cycle and is started again:
\* the database keeps processed_events and the checkpoint row, the queue of
\* the old process is gone, and run_forever reads the checkpoint (lines 54-55).
PollerRestart ==
    /\ poller.errors + poller.restarts < MaxPollFaults
    /\ poller' = PollerStart(source_checkpoint,
                             [poller EXCEPT !.restarts = @ + 1])
    /\ queue' = <<>>
    /\ UNCHANGED <<activity, ws_feed, source_checkpoint, enqueueLog,
                   processed_events>>

\* SourceWalletWsWatcher._on_message for a message with the row of fill n,
\* which matches the wallet: normalize and self._on_trade_event(event).
WsOnMessage(n) ==
    LET event == normalize_trade(RawRow(n))
    IN /\ n \in ws_feed
       /\ ws_feed' = ws_feed \ {n}
       /\ queue' = enqueue(queue, event)
       /\ enqueueLog' = IF queue' # queue THEN Append(enqueueLog, event)
                        ELSE enqueueLog
       /\ UNCHANGED <<activity, source_checkpoint, poller, processed_events>>

(***************************************************************************)
(* main.py: the orchestrator loop, with decision_engine/policy.py           *)
(* (IntentPolicy) and the outcome of executor/order_client.py.              *)
(***************************************************************************)
\* CopyConfig, ExecutionConfig and the SizingConfig fields of the policy with
\* their defaults; amounts in units of half a dollar, size_multiplier in
\* hundredths.
CopyConfig(net_opposite_trades) ==
    [coalesce_ms |-> 300, net_opposite_trades |-> net_opposite_trades]
ExecutionConfig(dry_run) ==
    [max_slippage_bps |-> 120, near_expiry_cutoff_seconds |-> 25,
     dry_run |-> dry_run]
PolicySizings ==
    [mode : {"capped_proportional"}, fixed_order_notional_usd : {20},
     size_multiplier : {100}, min_order_notional_usd : {2},
     max_notional_per_order_usd : {50}]

Outcomes == {"Up"}
Notionals == {0, 1, 2}
ExecTimes == {1}

\* The events a producer can publish as the n-th event.
PublishedEvents(n) ==
    {TradeEvent("e" \o ToString(n), "m1", o, sd, a, t, NoWindow, "activity_api") :
        o \in Outcomes, sd \in Sides, a \in Notionals, t \in ExecTimes}

Min(a, b) == IF a <= b THEN a ELSE b
Abs(a) == IF a < 0 THEN -a ELSE a

\* main._coalesce_key(event, net_opposite=...)
coalesce_key(event, net_opposite) ==
    LET window_id == IF event.window # NoWindow THEN event.window.window_id
                     ELSE "na"
        base == event.market_id \o ":" \o window_id \o ":" \o event.outcome
    IN IF net_opposite THEN base ELSE base \o ":" \o event.side

\* The events as they arrived, not sorted.
in_arrival_order(events) == events

\* sorted(events, key=lambda x: x.executed_ts): a stable sort.
RECURSIVE sorted_by_executed_ts(_)
sorted_by_executed_ts(events) ==
    IF events = <<>> THEN <<>>
    ELSE LET last == events[Len(events)]
             init == sorted_by_executed_ts(SubSeq(events, 1, Len(events) - 1))
             keep == {i \in 1..Len(init) : init[i].executed_ts <= last.executed_ts}
             n == Cardinality(keep)
         IN SubSeq(init, 1, n) \o <<last>> \o SubSeq(init, n + 1, Len(init))

\* net += sign * event.notional_usd over the ordered events.
RECURSIVE signed_net(_)
signed_net(ordered) ==
    IF ordered = <<>> THEN 0
    ELSE signed_net(Tail(ordered))
           + (IF Head(ordered).side = "BUY" THEN 1 ELSE -1)
               * Head(ordered).notional_usd

ExecutionIntent(intent_id, market_id, outcome, side, target_notional_usd, max_slippage_bps, coalesced_event_ids, window_id) ==
    [intent_id |-> intent_id, market_id |-> market_id, outcome |-> outcome,
     side |-> side, target_notional_usd |-> target_notional_usd,
     max_slippage_bps |-> max_slippage_bps,
     coalesced_event_ids |-> coalesced_event_ids, window_id |-> window_id]

\* The place of an intent where the code has None.
NoIntent == ExecutionIntent("", "", "", "BUY", 0, 0, <<>>, None)

\* _coalesced_intent without the test of a zero net.
coalesced_intent_no_zero_test(events, max_slippage_bps) ==
    LET ordered == sorted_by_executed_ts(events)
        net == signed_net(ordered)
        first == ordered[1]
    IN IF events = <<>>
       THEN [emitted |-> FALSE, intent |-> NoIntent, source_events |-> <<>>]
       ELSE [emitted |-> TRUE,
             intent |-> ExecutionIntent(
                 first.market_id \o ":" \o first.outcome \o ":" \o first.event_id,
                 first.market_id, first.outcome,
                 IF net > 0 THEN "BUY" ELSE "SELL", Abs(net), max_slippage_bps,
                 [i \in 1..Len(ordered) |-> ordered[i].event_id],
                 IF first.window # NoWindow THEN first.window.window_id ELSE None),
             source_events |-> ordered]

\* main._coalesced_intent(events, max_slippage_bps=...): emitted is FALSE where
\* the code returns None.
coalesced_intent(events, max_slippage_bps) ==
    LET ordered == sorted_by_executed_ts(events)
        net == signed_net(ordered)
        first == ordered[1]
    IN IF events = <<>> \/ net = 0
       THEN [emitted |-> FALSE, intent |-> NoIntent, source_events |-> <<>>]
       ELSE [emitted |-> TRUE,
             intent |-> ExecutionIntent(
                 first.market_id \o ":" \o first.outcome \o ":" \o first.event_id,
                 first.market_id, first.outcome,
                 IF net > 0 THEN "BUY" ELSE "SELL", Abs(net), max_slippage_bps,
                 [i \in 1..Len(ordered) |-> ordered[i].event_id],
                 IF first.window # NoWindow THEN first.window.window_id ELSE None),
             source_events |-> ordered]

\* _size_notional without its last line: only capped_proportional is capped.
size_notional_mode_cap_only(sz, source_notional) ==
    IF sz.mode = "fixed" THEN sz.fixed_order_notional_usd
    ELSE IF sz.mode = "proportional"
    THEN (source_notional * sz.size_multiplier) \div 100
    ELSE Min((source_notional * sz.size_multiplier) \div 100,
             sz.max_notional_per_order_usd)
\* IntentPolicy._size_notional(source_notional)
size_notional(sz, source_notional) ==
    LET sized == IF sz.mode = "fixed" THEN sz.fixed_order_notional_usd
                 ELSE IF sz.mode = "proportional"
                 THEN (source_notional * sz.size_multiplier) \div 100
                 ELSE Min((source_notional * sz.size_multiplier) \div 100,
                          sz.max_notional_per_order_usd)
    IN Min(sized, sz.max_notional_per_order_usd)

\* _near_expiry reading the first source event instead of the last.
near_expiry_first_event(ex, source_events, now) ==
    IF source_events = <<>> THEN FALSE
    ELSE LET event == source_events[1]
         IN IF event.window = NoWindow THEN FALSE
            ELSE event.window.end_s - (now \div 1000)
                   <= ex.near_expiry_cutoff_seconds
\* IntentPolicy._near_expiry(source_events), at clock now.
near_expiry(ex, source_events, now) ==
    IF source_events = <<>> THEN FALSE
    ELSE LET event == source_events[Len(source_events)]
         IN IF event.window = NoWindow THEN FALSE
            ELSE event.window.end_s - (now \div 1000)
                   <= ex.near_expiry_cutoff_seconds

\* apply with the minimum compared by <= : an order sized exactly at the
\* minimum is blocked.
apply_min_exclusive(sz, ex, intent, source_events, now) ==
    IF near_expiry(ex, source_events, now)
    THEN [blocked |-> TRUE, intent |-> NoIntent,
          blocked_reason |-> "near_expiry_cutoff"]
    ELSE IF size_notional(sz, intent.target_notional_usd)
              <= sz.min_order_notional_usd
    THEN [blocked |-> TRUE, intent |-> NoIntent,
          blocked_reason |-> "below_min_order_notional"]
    ELSE [blocked |-> FALSE,
          intent |-> [intent EXCEPT
              !.target_notional_usd = size_notional(sz, intent.target_notional_usd),
              !.max_slippage_bps = ex.max_slippage_bps],
          blocked_reason |-> ""]
\* IntentPolicy.apply(intent, source_events): DecisionResult.
apply(sz, ex, intent, source_events, now) ==
    IF near_expiry(ex, source_events, now)
    THEN [blocked |-> TRUE, intent |-> NoIntent,
          blocked_reason |-> "near_expiry_cutoff"]
    ELSE IF size_notional(sz, intent.target_notional_usd)
              < sz.min_order_notional_usd
    THEN [blocked |-> TRUE, intent |-> NoIntent,
          blocked_reason |-> "below_min_order_notional"]
    ELSE [blocked |-> FALSE,
          intent |-> [intent EXCEPT
              !.target_notional_usd = size_notional(sz, intent.target_notional_usd),
              !.max_slippage_bps = ex.max_slippage_bps],
          blocked_reason |-> ""]

\* The answers of the exchange to a posted order.
ExchangeAnswers == {"acknowledged", "min_size", "rejected"}

\* ClobOrderClient.submit_marketable_limit: acknowledged without a request in
\* dry-run mode, else what the exchange answers.
submit_marketable_limit(ex, answer) ==
    IF ex.dry_run
    THEN [accepted |-> TRUE, status |-> "dry_run_acknowledged", error_code |-> ""]
    ELSE IF answer = "acknowledged"
    THEN [accepted |-> TRUE, status |-> "acknowledged", error_code |-> ""]
    ELSE [accepted |-> FALSE, status |-> "rejected",
          error_code |-> IF answer = "min_size" THEN "min_size" ELSE ""]

\* One row of copy_audit.write and one of shadow.write.
AuditRow(correlation_id, intent, source_events, source_net, submitted, executed, blocked_reason, submit_status, submit_error_code) ==
    [correlation_id |-> correlation_id, market_id |-> intent.market_id,
     side |-> intent.side, source_events |-> source_events,
     source_net_notional_usd |-> source_net, submitted |-> submitted,
     executed |-> executed, blocked_reason |-> blocked_reason,
     submit_status |-> submit_status, submit_error_code |-> submit_error_code]
ShadowRow(correlation_id, intent, blocked_reason, executed) ==
    [correlation_id |-> correlation_id, market_id |-> intent.market_id,
     target_notional_usd |-> intent.target_notional_usd,
     blocked_reason |-> blocked_reason, executed |-> executed]

\* kill_switch.check().active with the test left out.
kill_switch_not_checked(ks) == FALSE

\* kill_switch.check().active, main.py line 216.
kill_switch_blocks(ks) == ks.active

\* What processing a bucket leaves behind when nothing is emitted.
NothingFlushed ==
    [key |-> "", events |-> <<>>, emitted |-> FALSE, intent |-> NoIntent,
     policy_calls |-> 0,
     risk_calls |-> 0, audit |-> <<>>, shadow |-> <<>>, orders |-> <<>>]

\* The body of `for key in due_keys`, main.py lines 152-437, for one bucket:
\* the risk counters after it, the snapshot of a risk call, and its outputs.
process_bucket(key, events, ks, wn, mn, dn, sz, psz, ex, answer, now) ==
    LET c == coalesced_intent(events, ex.max_slippage_bps)
        intent == c.intent
        correlation_id == intent.coalesced_event_ids[1]
        n == Len(c.source_events)
        counters == [window_notional |-> wn, market_notional |-> mn,
                     daily_notional |-> dn, snap |-> NoSnapshotYet]
        decision == apply(psz, ex, intent, c.source_events, now)
        risk == check_and_apply(wn, mn, dn, sz, decision.intent)
        submission == submit_marketable_limit(ex, answer)
        shadow_reason == IF submission.accepted THEN ""
                         ELSE IF submission.error_code = "min_size"
                         THEN "exchange_min_size_reject"
                         ELSE "order_rejected"
    IN IF ~c.emitted
       THEN [counters |-> counters, out |-> [NothingFlushed EXCEPT !.key = key, !.events = events]]
       ELSE IF kill_switch_blocks(ks)
       THEN [counters |-> counters,
             out |-> [key |-> key, events |-> events, emitted |-> TRUE,
                      intent |-> intent,
                      policy_calls |-> 0, risk_calls |-> 0,
                      audit |-> <<AuditRow(correlation_id, intent, n,
                                    intent.target_notional_usd, FALSE, FALSE,
                                    ks.reason, "", "")>>,
                      shadow |-> <<ShadowRow(correlation_id, intent, ks.reason,
                                             FALSE)>>,
                      orders |-> <<>>]]
       ELSE IF decision.blocked
       THEN [counters |-> counters,
             out |-> [key |-> key, events |-> events, emitted |-> TRUE,
                      intent |-> intent,
                      policy_calls |-> 1, risk_calls |-> 0,
                      audit |-> <<AuditRow(correlation_id, intent, n,
                                    intent.target_notional_usd, FALSE, FALSE,
                                    decision.blocked_reason, "", "")>>,
                      shadow |-> <<ShadowRow(correlation_id, intent,
                                             decision.blocked_reason, FALSE)>>,
                      orders |-> <<>>]]
       ELSE IF risk.snap.blocked
       THEN [counters |-> risk,
             out |-> [key |-> key, events |-> events, emitted |-> TRUE,
                      intent |-> intent,
                      policy_calls |-> 1, risk_calls |-> 1,
                      audit |-> <<AuditRow(correlation_id, decision.intent, n,
                                    intent.target_notional_usd, FALSE, FALSE,
                                    risk.snap.blocked_reason, "", "")>>,
                      shadow |-> <<ShadowRow(correlation_id, decision.intent,
                                             risk.snap.blocked_reason, FALSE)>>,
                      orders |-> <<>>]]
       ELSE [counters |-> risk,
             out |-> [key |-> key, events |-> events, emitted |-> TRUE,
                      intent |-> intent,
                      policy_calls |-> 1, risk_calls |-> 1,
                      audit |-> <<AuditRow(correlation_id, decision.intent, n,
                                    intent.target_notional_usd, TRUE,
                                    submission.accepted, "", submission.status,
                                    submission.error_code)>>,
                      shadow |-> <<ShadowRow(correlation_id, decision.intent,
                                             shadow_reason, submission.accepted)>>,
                      orders |-> <<[intent |-> decision.intent,
                                    accepted |-> submission.accepted]>>]]

\* buckets.get(key) / buckets[key] = CoalesceBucket(...) / bucket.events.append
bucket_put(bs, key, event, now) ==
    IF \E i \in 1..Len(bs) : bs[i].key = key
    THEN [i \in 1..Len(bs) |->
            IF bs[i].key = key
            THEN [bs[i] EXCEPT !.events = Append(@, event)] ELSE bs[i]]
    ELSE Append(bs, [key |-> key, events |-> <<event>>, first_seen_ms |-> now])

\* Every bucket taken as due, whatever its age.
due_keys_any_age(bs, now, coalesce_ms) == [i \in 1..Len(bs) |-> bs[i].key]

\* The keys of the buckets that are due at clock now, in dict order.
RECURSIVE due_keys_of(_, _, _)
due_keys_of(bs, now, coalesce_ms) ==
    IF bs = <<>> THEN <<>>
    ELSE (IF now - Head(bs).first_seen_ms >= coalesce_ms
          THEN <<Head(bs).key>> ELSE <<>>)
           \o due_keys_of(Tail(bs), now, coalesce_ms)

\* buckets.pop(key): the bucket, and the dict without it.
bucket_of(bs, key) == bs[CHOOSE i \in 1..Len(bs) : bs[i].key = key]
RECURSIVE buckets_without(_, _)
buckets_without(bs, key) ==
    IF bs = <<>> THEN <<>>
    ELSE IF Head(bs).key = key THEN Tail(bs)
    ELSE <<Head(bs)>> \o buckets_without(Tail(bs), key)

\* main(): the objects built before the loop, lines 41-72.
PipelineInit(net_opposite, dry_runs, sizings) ==
    /\ copy_cfg \in {CopyConfig(b) : b \in net_opposite}
    /\ execution \in {ExecutionConfig(b) : b \in dry_runs}
    /\ policy_sizing \in sizings
    /\ now_ms = 0
    /\ produced = 0
    /\ buckets = <<>>
    /\ loop = [pc |-> "get", due_keys |-> <<>>]
    /\ flushed = NothingFlushed
    /\ consumed = <<>>

\* A producer thread publishes an event: main._enqueue.  The loop reads the
\* queue in queue.get only, so the put is taken just before a get.
Produce(event) ==
    /\ loop.pc = "get"
    /\ produced < MaxProduced
    /\ queue' = enqueue(queue, event)
    /\ produced' = produced + 1
    /\ UNCHANGED <<copy_cfg, execution, policy_sizing, now_ms, buckets, loop,
                   flushed, consumed, guardVars, riskVars>>

\* Time passes.  The loop reads the clock for a bucket's first_seen_ms and for
\* the due keys, both right after queue.get.
Tick ==
    /\ loop.pc = "get"
    /\ now_ms < MaxTicks * copy_cfg.coalesce_ms
    /\ now_ms' = now_ms + copy_cfg.coalesce_ms
    /\ UNCHANGED <<copy_cfg, execution, policy_sizing, produced, buckets, loop,
                   flushed, consumed, queue, guardVars, riskVars>>

\* Lines 126-150: queue.get (an event, or Empty), the bucket of the event, and
\* the due keys.
LoopGet ==
    LET bs == IF queue = <<>> THEN buckets
              ELSE bucket_put(buckets,
                     coalesce_key(Head(queue), copy_cfg.net_opposite_trades),
                     Head(queue), now_ms)
        due == due_keys_of(bs, now_ms, copy_cfg.coalesce_ms)
    IN /\ loop.pc = "get"
       /\ queue' = IF queue = <<>> THEN queue ELSE Tail(queue)
       /\ buckets' = bs
       /\ loop' = [pc |-> IF due = <<>> THEN "snapshot" ELSE "flush",
                   due_keys |-> due]
       /\ flushed' = NothingFlushed
       /\ UNCHANGED <<copy_cfg, execution, policy_sizing, now_ms, produced,
                      consumed, guardVars, riskVars>>

\* Lines 151-437 for the next due key: pop the bucket and process it.
LoopFlush(answer) ==
    LET key == Head(loop.due_keys)
        r == process_bucket(key, bucket_of(buckets, key).events, kill_switch,
                            window_notional, market_notional, daily_notional,
                            sizing, policy_sizing, execution, answer, now_ms)
        rest == Tail(loop.due_keys)
    IN /\ loop.pc = "flush"
       /\ buckets' = buckets_without(buckets, key)
       /\ loop' = [pc |-> IF rest = <<>> THEN "snapshot" ELSE "flush",
                   due_keys |-> rest]
       /\ flushed' = r.out
       /\ consumed' = consumed \o [i \in 1..Len(bucket_of(buckets, key).events) |->
                                      bucket_of(buckets, key).events[i].event_id]
       /\ window_notional' = r.counters.window_notional
       /\ market_notional' = r.counters.market_notional
       /\ daily_notional' = r.counters.daily_notional
       /\ UNCHANGED <<copy_cfg, execution, policy_sizing, now_ms, produced, queue,
                      guardVars, sizing, riskIntent, riskSnap>>

\* Lines 439-452 when 30 s have passed since the last snapshot:
\* _emit_snapshot, whose auto_kill.evaluate runs outside dry-run mode on the
\* readings of the metrics window.
LoopSnapshot(error_rate, p95_latency_ms) ==
    LET r == evaluate(kill_switch, healthy_streak, thresholds, error_rate,
                      p95_latency_ms)
    IN /\ loop.pc = "snapshot"
       /\ IF execution.dry_run
          THEN UNCHANGED <<kill_switch, healthy_streak>>
          ELSE kill_switch' = r.ks /\ healthy_streak' = r.streak
       /\ loop' = [loop EXCEPT !.pc = "get"]
       /\ UNCHANGED <<copy_cfg, execution, policy_sizing, now_ms, produced, queue,
                      buckets, flushed, consumed, thresholds, evalTrace, riskVars>>

\* Lines 439-440 otherwise: no snapshot in this iteration.
LoopNoSnapshot ==
    /\ loop.pc = "snapshot"
    /\ loop' = [loop EXCEPT !.pc = "get"]
    /\ UNCHANGED <<copy_cfg, execution, policy_sizing, now_ms, produced, queue,
                   buckets, flushed, consumed, guardVars, riskVars>>

(***************************************************************************)
(* decision_engine/coalescer.py: IntentNetCoalescer                         *)
(***************************************************************************)
CoalescerConfig(net_opposite_trades) ==
    [coalesce_ms |-> 300, max_slippage_bps |-> 120,
     net_opposite_trades |-> net_opposite_trades]

\* IntentNetCoalescer._coalesce_key(event)
coalescer_key(cfg, event) ==
    LET window_id == IF event.window # NoWindow THEN event.window.window_id
                     ELSE "na"
    IN IF cfg.net_opposite_trades
       THEN event.market_id \o ":" \o window_id
       ELSE event.market_id \o ":" \o event.outcome \o ":" \o event.side
                \o ":" \o window_id

\* sum(e.notional_usd for e in events)
RECURSIVE sum_notional(_)
sum_notional(events) ==
    IF events = <<>> THEN 0
    ELSE Head(events).notional_usd + sum_notional(Tail(events))

\* IntentNetCoalescer._to_intent(events) at clock now: emitted is FALSE where
\* the code returns None.
to_intent(cfg, events_in, now) ==
    LET events == sorted_by_executed_ts(events_in)
        first == events[1]
        window_id == IF first.window # NoWindow THEN first.window.window_id
                     ELSE None
        event_ids == [i \in 1..Len(events) |-> events[i].event_id]
        net_usd == signed_net(events)
        side == IF cfg.net_opposite_trades
                THEN (IF net_usd > 0 THEN "BUY" ELSE "SELL")
                ELSE first.side
        target_notional == IF cfg.net_opposite_trades THEN Abs(net_usd)
                           ELSE sum_notional(events)
    IN IF cfg.net_opposite_trades /\ net_usd = 0
       THEN [emitted |-> FALSE, intent |-> NoIntent]
       ELSE [emitted |-> TRUE,
             intent |-> ExecutionIntent(
                 first.market_id \o ":" \o first.outcome \o ":" \o ToString(now),
                 first.market_id, first.outcome, side, target_notional,
                 cfg.max_slippage_bps, event_ids, window_id)]

\* self._events_by_key.setdefault(key, []).append(event)
setdefault_append(d, key, event) ==
    IF \E i \in 1..Len(d) : d[i].key = key
    THEN [i \in 1..Len(d) |->
            IF d[i].key = key
            THEN [d[i] EXCEPT !.events = Append(@, event)] ELSE d[i]]
    ELSE Append(d, [key |-> key, events |-> <<event>>])

\* self._events_by_key.pop(key, []): the events and the dict without the key.
events_of(d, key) ==
    IF \E i \in 1..Len(d) : d[i].key = key
    THEN d[CHOOSE i \in 1..Len(d) : d[i].key = key].events
    ELSE <<>>
RECURSIVE dict_without(_, _)
dict_without(d, key) ==
    IF d = <<>> THEN <<>>
    ELSE IF Head(d).key = key THEN Tail(d)
    ELSE <<Head(d)>> \o dict_without(Tail(d), key)

\* The events a caller can push as the n-th event: fills of the outcome Up,
\* and one fill of each side of the other outcome of the same market and
\* window.
PushedEvents(n) ==
    {TradeEvent("e" \o ToString(n), "m1", o, sd, a, t, NoWindow, "activity_api") :
        o \in Outcomes, sd \in Sides, a \in Notionals, t \in {1, 2}}
    \cup {TradeEvent("e" \o ToString(n), "m1", "Down", sd, 1, 1, NoWindow, "activity_api") :
             sd \in Sides}

NoFlushYet == [events |-> <<>>, emitted |-> FALSE, intent |-> NoIntent]

\* IntentNetCoalescer(cfg)
CoalescerInit(net_opposite) ==
    /\ coalescer_cfg \in {CoalescerConfig(b) : b \in net_opposite}
    /\ events_by_key = <<>>
    /\ timers = {}
    /\ out = <<>>
    /\ pushed = 0
    /\ last_flush = NoFlushYet
    /\ flushed_ids = <<>>

\* push(event): the event joins the list of its key, and a key without a
\* timer gets a _flush_after task, which sleeps coalesce_ms.
Push(event) ==
    LET key == coalescer_key(coalescer_cfg, event)
    IN /\ pushed < MaxPushed
       /\ pushed' = pushed + 1
       /\ events_by_key' = setdefault_append(events_by_key, key, event)
       /\ timers' = IF \E t \in timers : t.key = key THEN timers
                    ELSE timers \cup {[key |-> key,
                                       wake_ms |-> now_ms + coalescer_cfg.coalesce_ms]}
       /\ UNCHANGED <<coalescer_cfg, out, last_flush, flushed_ids>>

\* _flush_after(key) once its sleep is over: pop the events and the timer,
\* build the intent, put it on _out.
FlushAfter(t) ==
    LET events == events_of(events_by_key, t.key)
        r == to_intent(coalescer_cfg, events, now_ms)
    IN /\ t \in timers
       /\ now_ms >= t.wake_ms
       /\ events_by_key' = dict_without(events_by_key, t.key)
       /\ timers' = timers \ {t}
       /\ flushed_ids' = flushed_ids \o [i \in 1..Len(events) |-> events[i].event_id]
       /\ IF events = <<>>
          THEN UNCHANGED <<out, last_flush>>
          ELSE /\ out' = IF r.emitted THEN Append(out, r.intent) ELSE out
               /\ last_flush' = [events |-> events, emitted |-> r.emitted,
                                 intent |-> r.intent]
       /\ UNCHANGED <<coalescer_cfg, pushed>>

\* next_intent(): await self._out.get()
NextIntent ==
    /\ out # <<>>
    /\ out' = Tail(out)
    /\ UNCHANGED <<coalescer_cfg, events_by_key, timers, pushed, last_flush,
                   flushed_ids>>

(***************************************************************************)
(* decision_engine/policy.py: IntentPolicy.apply on its own                *)
(***************************************************************************)
MaxSourceNotional == 5      \* target_notional_usd of the intents handed to apply
MaxSourceEvents == 2        \* source events handed to one apply call

\* The SizingConfig values the policy is built with: the three modes, a
\* multiplier of 1 and 2 (whole multiples keep the product exact, as Decimal
\* is), a fixed size below and above the minimum; validate_config admits
\* them (min > 0, per-order cap >= min).
PolicyModes == {"fixed", "proportional", "capped_proportional"}
ApplySizings ==
    [mode : PolicyModes, fixed_order_notional_usd : {1, 3},
     size_multiplier : {100, 200}, min_order_notional_usd : {2},
     max_notional_per_order_usd : {4}]
StalenessCutoffs == {4000}      \* max_source_staleness_ms
PolicyClocks == {60000}         \* the clock of an apply call, in ms
SourceAges == {1000, 4000, 4001}    \* ms between executed_ts and the call
RemainingSeconds == {25, 26}    \* seconds between the call and a window's end

\* The windows an event can carry at clock now, and the event lists apply can
\* be handed: main passes the bucket sorted by executed_ts (oldest first).
ApplyWindows(now) ==
    {NoWindow} \cup {[window_id |-> "w" \o ToString(r),
                      end_s |-> (now \div 1000) + r] : r \in RemainingSeconds}
ApplySourceEvents(now) ==
    LET shapes == SourceAges \X ApplyWindows(now)
        lists == UNION {[1..k -> shapes] : k \in 1..MaxSourceEvents}
    IN {[i \in 1..Len(l) |->
            TradeEvent("e" \o ToString(i), "m1", "Up", "BUY", 1,
                       now - l[i][1], l[i][2], "activity_api")] :
          l \in {f \in lists :
                   \A i \in 1..(Len(f) - 1) : f[i][1] >= f[i + 1][1]}}
ApplyIntent(target, source_events, now) ==
    ExecutionIntent("m1:Up:" \o ToString(now), "m1", "Up", "BUY", target, 60,
                    [i \in 1..Len(source_events) |-> source_events[i].event_id],
                    source_events[1].window.window_id)

\* The staleness guard of apply: the last source event was executed more
\* than max_source_staleness_ms before the call.
source_stale(max_source_staleness_ms, source_events, now) ==
    IF source_events = <<>> THEN FALSE
    ELSE now - source_events[Len(source_events)].executed_ts
           > max_source_staleness_ms

\* IntentPolicy.apply of a policy built with max_source_staleness_ms: the
\* guards in order near-expiry, staleness, then sizing and the minimum.
apply_with_staleness(cfg, intent, source_events, now) ==
    IF near_expiry(cfg.execution, source_events, now)
    THEN apply(cfg.sizing, cfg.execution, intent, source_events, now)
    ELSE IF source_stale(cfg.max_source_staleness_ms, source_events, now)
    THEN [blocked |-> TRUE, intent |-> NoIntent,
          blocked_reason |-> "source_stale"]
    ELSE apply(cfg.sizing, cfg.execution, intent, source_events, now)

\* The calls of apply: an intent and the source events it was built from,
\* at clock now.
NoDecision == [blocked |-> FALSE, intent |-> NoIntent, blocked_reason |-> ""]
ApplyCall(target, source_events, now) ==
    [called |-> FALSE, intent |-> ApplyIntent(target, source_events, now),
     source_events |-> source_events, now |-> now,
     result |-> NoDecision, unguarded |-> NoDecision]
ApplyCalls ==
    UNION {{ApplyCall(target, source_events, now) :
              target \in 0..MaxSourceNotional,
              source_events \in ApplySourceEvents(now)} : now \in PolicyClocks}

\* IntentPolicy(sizing, execution, max_source_staleness_ms=...) and the
\* arguments of the apply call to come.
PolicyInit(sizings, calls) ==
    /\ policy_cfg \in [sizing : sizings, execution : {ExecutionConfig(TRUE)},
                       max_source_staleness_ms : StalenessCutoffs]
    /\ policy_call \in calls

\* policy.apply(intent, source_events) at clock now; unguarded is what the
\* policy without a staleness cutoff (main's IntentPolicy(cfg.sizing,
\* cfg.execution)) returns for the same call.
PolicyApply ==
    /\ ~policy_call.called
    /\ policy_call' =
         [policy_call EXCEPT
            !.called = TRUE,
            !.result = apply_with_staleness(policy_cfg, policy_call.intent,
                           policy_call.source_events, policy_call.now),
            !.unguarded = apply(policy_cfg.sizing, policy_cfg.execution,
                           policy_call.intent, policy_call.source_events,
                           policy_call.now)]
    /\ UNCHANGED policy_cfg

(***************************************************************************)
(* executor/order_client.py: ClobOrderClient                               *)
(***************************************************************************)
MaxRetries == 3     \* ClobOrderClient(max_retries=...) ranges over 0..MaxRetries

\* OrderSubmission, without endpoint, payload and response.
OrderSubmission(client_order_id, accepted, status, error, error_code) ==
    [client_order_id |-> client_order_id, accepted |-> accepted,
     status |-> status, error |-> error, error_code |-> error_code]

\* What a POST can end in: a JSON answer, one of the three exceptions
\* _post_with_retry catches, or an answer that is not JSON (json.loads raises
\* a ValueError, which is not caught).
PostOutcomes == {"ok", "TimeoutError", "URLError", "HTTPError", "invalid_json"}
CaughtErrors == {"TimeoutError", "URLError", "HTTPError"}
error_text(outcome) ==
    IF outcome = "TimeoutError" THEN "timed out"
    ELSE IF outcome = "URLError" THEN "<urlopen error [Errno 111] Connection refused>"
    ELSE "HTTP Error 503: Service Unavailable"

\* _classify_error_code(error): min_size for a text with "size" and "lower
\* than the minimum" in it.
MinSizeErrors == {"Size (1) lower than the minimum: 5"}
classify_error_code(error) ==
    IF error \in MinSizeErrors THEN "min_size" ELSE ""

\* ",".join(coalesced_event_ids)
RECURSIVE join_comma(_)
join_comma(ids) ==
    IF ids = <<>> THEN ""
    ELSE IF Len(ids) = 1 THEN ids[1]
    ELSE ids[1] \o "," \o join_comma(Tail(ids))

\* hashlib.sha256(text).hexdigest()[:24]: a fixed function of the text;
\* two texts are taken to have different digests.
sha256_hex24(text) == "sha256[" \o text \o "]"

\* deterministic_client_order_id with intent_id among the digested fields.
deterministic_client_order_id_with_intent_id(intent) ==
    "cb-" \o sha256_hex24(
        intent.intent_id \o "|" \o intent.market_id \o "|" \o intent.outcome
          \o "|" \o intent.side \o "|"
          \o (IF intent.window_id \in {None, ""} THEN "na" ELSE intent.window_id)
          \o "|" \o join_comma(intent.coalesced_event_ids)
          \o "|" \o ToString(intent.target_notional_usd))

\* deterministic_client_order_id(intent)
deterministic_client_order_id(intent) ==
    "cb-" \o sha256_hex24(
        intent.market_id \o "|" \o intent.outcome \o "|" \o intent.side \o "|"
          \o (IF intent.window_id \in {None, ""} THEN "na" ELSE intent.window_id)
          \o "|" \o join_comma(intent.coalesced_event_ids)
          \o "|" \o ToString(intent.target_notional_usd))

\* The intents handed to submit_marketable_limit: four values of the digested
\* fields, each under two intent ids and slippage settings.
SubmittedIntents ==
    {ExecutionIntent(v[1], "m1", "Up", "BUY", d[1], v[2], d[2], d[3]) :
        v \in {<<"m1:Up:1000", 120>>, <<"m1:Up:2000", 60>>},
        d \in {<<1, <<"e1">>, None>>, <<2, <<"e1">>, None>>,
               <<1, <<"e1", "e2">>, None>>, <<1, <<"e1">>, "w1">>}}

NoSubmission == OrderSubmission("", FALSE, "", "", "")
NoSubmitCall ==
    [pc |-> "idle", dry_run |-> FALSE, intent |-> NoIntent,
     client_order_id |-> "", attempt |-> 0, posts |-> <<>>,
     submission |-> NoSubmission]

\* ClobOrderClient(polymarket, execution, max_retries=...), without a market
\* cache: live orders go the direct HTTP way.
OrderInit(retries) ==
    /\ order_cfg \in [max_retries : retries]
    /\ submit_call = NoSubmitCall
    /\ prev_submit = NoSubmitCall

\* submit_marketable_limit(intent, ...) up to the first POST: the id and the
\* payload are built once; a dry-run client returns at once, a live client
\* enters the loop of _post_with_retry, which is empty when max_retries < 1.
SubmitMarketableLimit(dry_run, intent) ==
    LET client_order_id == deterministic_client_order_id(intent)
        call == [pc |-> "post", dry_run |-> dry_run, intent |-> intent,
                 client_order_id |-> client_order_id, attempt |-> 1,
                 posts |-> <<>>, submission |-> NoSubmission]
    IN /\ submit_call.pc \in {"idle", "returned", "raised"}
       /\ prev_submit' = submit_call
       /\ submit_call' =
            IF dry_run
            THEN [call EXCEPT !.pc = "returned", !.attempt = 0,
                    !.submission = OrderSubmission(client_order_id, TRUE,
                                       "dry_run_acknowledged", "", "")]
            ELSE IF order_cfg.max_retries < 1
            THEN [call EXCEPT !.pc = "returned", !.attempt = 0,
                    !.submission = OrderSubmission(client_order_id, FALSE,
                                       "rejected", "unreachable", "")]
            ELSE call
       /\ UNCHANGED order_cfg

\* A POST as the history keeps it: the client_order_id in its payload and
\* whether it was answered, failed with a caught error, or was not JSON.
Posted(client_order_id, outcome) ==
    [client_order_id |-> client_order_id,
     answer |-> IF outcome = "ok" THEN "ok"
                ELSE IF outcome \in CaughtErrors THEN "error" ELSE "invalid"]

\* The loop of _post_with_retry without the test attempt == max_retries.
PostAttempt_no_last_attempt(outcome) ==
    LET posted == [submit_call EXCEPT
                     !.posts = Append(@, Posted(submit_call.client_order_id, outcome))]
    IN /\ submit_call.pc = "post"
       /\ submit_call' =
            IF outcome = "ok"
            THEN [posted EXCEPT !.pc = "returned",
                    !.submission = OrderSubmission(submit_call.client_order_id,
                                       TRUE, "acknowledged", "", "")]
            ELSE IF outcome \notin CaughtErrors
            THEN [posted EXCEPT !.pc = "raised"]
            ELSE IF submit_call.attempt > order_cfg.max_retries
            THEN [posted EXCEPT !.pc = "returned",
                    !.submission = OrderSubmission(submit_call.client_order_id,
                                       FALSE, "rejected", error_text(outcome),
                                       classify_error_code(error_text(outcome)))]
            ELSE [posted EXCEPT !.attempt = @ + 1]
       /\ UNCHANGED <<order_cfg, prev_submit>>

\* One pass of the loop of _post_with_retry: the POST of the payload and
\* what follows from its outcome (return, raise, or sleep and go on).
PostAttempt(outcome) ==
    LET posted == [submit_call EXCEPT
                     !.posts = Append(@, Posted(submit_call.client_order_id, outcome))]
    IN /\ submit_call.pc = "post"
       /\ submit_call' =
            IF outcome = "ok"
            THEN [posted EXCEPT !.pc = "returned",
                    !.submission = OrderSubmission(submit_call.client_order_id,
                                       TRUE, "acknowledged", "", "")]
            ELSE IF outcome \notin CaughtErrors
            THEN [posted EXCEPT !.pc = "raised"]
            ELSE IF submit_call.attempt = order_cfg.max_retries
            THEN [posted EXCEPT !.pc = "returned",
                    !.submission = OrderSubmission(submit_call.client_order_id,
                                       FALSE, "rejected", error_text(outcome),
                                       classify_error_code(error_text(outcome)))]
            ELSE [posted EXCEPT !.attempt = @ + 1]
       /\ UNCHANGED <<order_cfg, prev_submit>>

(***************************************************************************)
(* telemetry/metrics.py: MetricsCollector, called as main's loop calls it  *)
(***************************************************************************)
MaxReceived == 2        \* events main takes off the queue

CorrelationIds == {"e" \o ToString(n) : n \in 1..MaxReceived}
BucketKeys == {"k1", "k2"}
ReceiveTimes == {1000}          \* ts_ms of record_event_receive
SubmitTimes == {2500, 3000}     \* ts_ms of record_decision and record_order_submit
AckLatencies == {100}           \* ms from record_order_submit to record_ack

\* StageTimes(); -1 stands for None.
StageTimes ==
    [event_receive_ts_ms |-> -1, decision_ts_ms |-> -1,
     order_submit_ts_ms |-> -1, ack_ts_ms |-> -1]

\* MetricsCollector(): the fields of __init__ and, for snapshot_window, the
\* values the counters had at the last snapshot_window call.
MetricsCollector ==
    [by_correlation |-> [c \in CorrelationIds |-> StageTimes],
     copy_delays |-> <<>>, decision_delays |-> <<>>,
     submit_to_ack_delays |-> <<>>,
     source_fills |-> 0, destination_orders |-> 0,
     submissions |-> 0, rejections |-> 0,
     window_base |-> [copy_delays |-> 0, submissions |-> 0, rejections |-> 0]]

\* record_event_receive that does not count the fill.
record_event_receive_no_count(m, correlation_id, ts_ms) ==
    [m EXCEPT !.by_correlation[correlation_id].event_receive_ts_ms = ts_ms]

\* record_event_receive(correlation_id, ts_ms)
record_event_receive(m, correlation_id, ts_ms) ==
    [m EXCEPT !.by_correlation[correlation_id].event_receive_ts_ms = ts_ms,
              !.source_fills = @ + 1]

\* record_decision(correlation_id, ts_ms)
record_decision(m, correlation_id, ts_ms) ==
    LET stage == m.by_correlation[correlation_id]
    IN [m EXCEPT !.by_correlation[correlation_id].decision_ts_ms = ts_ms,
                 !.decision_delays =
                     IF stage.event_receive_ts_ms # -1
                     THEN Append(@, ts_ms - stage.event_receive_ts_ms) ELSE @]

\* record_order_submit(correlation_id, ts_ms)
record_order_submit(m, correlation_id, ts_ms) ==
    LET stage == m.by_correlation[correlation_id]
    IN [m EXCEPT !.by_correlation[correlation_id].order_submit_ts_ms = ts_ms,
                 !.destination_orders = @ + 1,
                 !.submissions = @ + 1,
                 !.copy_delays =
                     IF stage.event_receive_ts_ms # -1
                     THEN Append(@, ts_ms - stage.event_receive_ts_ms) ELSE @]

\* record_ack that never counts a rejection.
record_ack_accepted_no_rejection(m, correlation_id, ts_ms, accepted) ==
    LET stage == m.by_correlation[correlation_id]
    IN [m EXCEPT !.by_correlation[correlation_id].ack_ts_ms = ts_ms,
                 !.submit_to_ack_delays =
                     IF stage.order_submit_ts_ms # -1
                     THEN Append(@, ts_ms - stage.order_submit_ts_ms) ELSE @]

\* record_ack(correlation_id, ts_ms, accepted=...)
record_ack_accepted(m, correlation_id, ts_ms, accepted) ==
    LET stage == m.by_correlation[correlation_id]
    IN [m EXCEPT !.by_correlation[correlation_id].ack_ts_ms = ts_ms,
                 !.submit_to_ack_delays =
                     IF stage.order_submit_ts_ms # -1
                     THEN Append(@, ts_ms - stage.order_submit_ts_ms) ELSE @,
                 !.rejections = IF accepted THEN @ ELSE @ + 1]

\* record_ack(correlation_id, ts_ms, accepted=..., counts_toward_reject_rate=...)
\* as main calls it: a submission that does not count toward the reject rate
\* is neither a rejection nor a submission of the rate.
record_ack(m, correlation_id, ts_ms, accepted, counts_toward_reject_rate) ==
    IF counts_toward_reject_rate
    THEN record_ack_accepted(m, correlation_id, ts_ms, accepted)
    ELSE [record_ack_accepted(m, correlation_id, ts_ms, TRUE)
            EXCEPT !.submissions = @ - 1]

Max(a, b) == IF a >= b THEN a ELSE b

\* round(num / den) as Python rounds: half to even.
round_half_even(num, den) ==
    LET q == num \div den
        r == num % den
    IN IF 2 * r > den \/ (2 * r = den /\ q % 2 = 1) THEN q + 1 ELSE q

\* sorted(values)
RECURSIVE sorted_values(_)
sorted_values(values) ==
    IF values = <<>> THEN <<>>
    ELSE LET i == CHOOSE i \in 1..Len(values) :
                    \A j \in 1..Len(values) : values[i] <= values[j]
         IN <<values[i]>>
              \o sorted_values([k \in 1..(Len(values) - 1) |->
                                   IF k < i THEN values[k] ELSE values[k + 1]])

\* _percentile(sorted_values, p)
percentile(ordered, p) ==
    IF ordered = <<>> THEN 0
    ELSE IF Len(ordered) = 1 THEN ordered[1]
    ELSE LET index == round_half_even(p * (Len(ordered) - 1), 100)
         IN ordered[Max(0, Min(index, Len(ordered) - 1)) + 1]

\* _summary(values): empty is TRUE where the code returns None; the median
\* (p50) is left out.
summary(values) ==
    IF values = <<>> THEN [empty |-> TRUE, p95 |-> 0, p99 |-> 0]
    ELSE [empty |-> FALSE, p95 |-> percentile(sorted_values(values), 95),
          p99 |-> percentile(sorted_values(values), 99)]

\* rejections / submissions if submissions else 0.0, as a fraction.
reject_rate(rejections, submissions) ==
    IF submissions # 0 THEN [num |-> rejections, den |-> submissions]
    ELSE [num |-> 0, den |-> 1]

\* _coalescing_efficiency(), in hundredths; none is TRUE where the code
\* returns None.
coalescing_efficiency(m) ==
    IF m.destination_orders = 0 THEN [none |-> TRUE, hundredths |-> 0]
    ELSE [none |-> FALSE,
          hundredths |-> (m.source_fills * 100) \div m.destination_orders]

\* snapshot() reporting the interval since the last snapshot_window.
snapshot_of_interval(m) ==
    [copy_delay_ms |-> summary(SubSeq(m.copy_delays, m.window_base.copy_delays + 1,
                                      Len(m.copy_delays))),
     decision_delay_ms |-> summary(m.decision_delays),
     submit_to_ack_ms |-> summary(m.submit_to_ack_delays),
     source_fills |-> m.source_fills,
     destination_orders |-> m.destination_orders,
     coalescing_efficiency |-> coalescing_efficiency(m),
     reject_rate |-> reject_rate(m.rejections - m.window_base.rejections,
                                 m.submissions - m.window_base.submissions)]

\* snapshot(): DashboardSnapshot
snapshot(m) ==
    [copy_delay_ms |-> summary(m.copy_delays),
     decision_delay_ms |-> summary(m.decision_delays),
     submit_to_ack_ms |-> summary(m.submit_to_ack_delays),
     source_fills |-> m.source_fills,
     destination_orders |-> m.destination_orders,
     coalescing_efficiency |-> coalescing_efficiency(m),
     reject_rate |-> reject_rate(m.rejections, m.submissions)]

\* snapshot_window that reports the cumulative figures and starts no interval.
snapshot_window_cumulative(m) ==
    [report |-> [copy_delay_ms |-> summary(m.copy_delays),
                 reject_rate |-> reject_rate(m.rejections, m.submissions)],
     metrics |-> m]

\* snapshot_window(): the copy delays and the reject rate of the records made
\* since the previous call, and the collector with its interval started anew.
snapshot_window(m) ==
    [report |->
        [copy_delay_ms |-> summary(SubSeq(m.copy_delays,
                                          m.window_base.copy_delays + 1,
                                          Len(m.copy_delays))),
         reject_rate |-> reject_rate(m.rejections - m.window_base.rejections,
                                     m.submissions - m.window_base.submissions)],
     metrics |->
        [m EXCEPT !.window_base = [copy_delays |-> Len(m.copy_delays),
                                   submissions |-> m.submissions,
                                   rejections |-> m.rejections]]]

\* What the flush of a due bucket comes to in main's loop: no intent (the
\* events net out), the kill switch blocks, the policy or the risk tracker
\* blocks, or the order is submitted and acknowledged, rejected, or rejected
\* with error_code min_size.
FlushOutcomes ==
    {"no_intent", "kill_switch", "policy_blocked", "risk_blocked",
     "acknowledged", "rejected", "min_size"}
Submitted == {"acknowledged", "rejected", "min_size"}
error_code_of(outcome) == IF outcome = "min_size" THEN "min_size" ELSE ""

NoAck ==
    [submitted |-> FALSE, accepted |-> FALSE, error_code |-> "",
     rate_before |-> reject_rate(0, 0), rate_after |-> reject_rate(0, 0),
     rejections_before |-> 0, rejections_after |-> 0]
NoEmit ==
    [called |-> FALSE, previous |-> -1, since |-> <<>>,
     snapshot |-> snapshot(MetricsCollector),
     window |-> snapshot_window(MetricsCollector).report,
     snapshot_after |-> snapshot(MetricsCollector)]

\* metrics = MetricsCollector() and buckets = {} at the start of main.
MetricsInit ==
    /\ metrics = MetricsCollector
    /\ pending = [k \in BucketKeys |-> <<>>]
    /\ received = 0
    /\ submit_log = <<>>
    /\ window_mark = 0
    /\ last_ack = NoAck
    /\ last_emit = NoEmit

\* queue.get: the event's id is its correlation id; it is counted and joins
\* the bucket of its key.
MetricsReceive(key, ts_ms) ==
    LET correlation_id == "e" \o ToString(received + 1)
    IN /\ received < MaxReceived
       /\ received' = received + 1
       /\ metrics' = record_event_receive(metrics, correlation_id, ts_ms)
       /\ pending' = [pending EXCEPT ![key] = Append(@, correlation_id)]
       /\ UNCHANGED <<submit_log, window_mark, last_ack, last_emit>>

\* The flush of the due bucket key: correlation_id is the id of the bucket's
\* first event in executed_ts order; the decision is recorded unless no
\* intent comes out or the kill switch blocks; the submit and the ack are
\* recorded when the order is sent, the ack with counts_toward_reject_rate =
\* (error_code != "min_size").
MetricsFlush(key, correlation_id, outcome, ts_ms, latency) ==
    LET decided == record_decision(metrics, correlation_id, ts_ms)
        sent == record_order_submit(decided, correlation_id, ts_ms)
        accepted == outcome = "acknowledged"
        acked == record_ack(sent, correlation_id, ts_ms + latency, accepted,
                            error_code_of(outcome) # "min_size")
    IN /\ pending[key] # <<>>
       /\ \E i \in 1..Len(pending[key]) : pending[key][i] = correlation_id
       /\ pending' = [pending EXCEPT ![key] = <<>>]
       /\ metrics' = IF outcome \in {"no_intent", "kill_switch"} THEN metrics
                     ELSE IF outcome \in Submitted THEN acked
                     ELSE decided
       /\ IF outcome \in Submitted
          THEN /\ submit_log' = Append(submit_log,
                     [copy_delay |-> ts_ms - metrics.by_correlation[correlation_id].event_receive_ts_ms,
                      accepted |-> accepted,
                      error_code |-> error_code_of(outcome)])
               /\ last_ack' =
                     [submitted |-> TRUE, accepted |-> accepted,
                      error_code |-> error_code_of(outcome),
                      rate_before |-> snapshot(metrics).reject_rate,
                      rate_after |-> snapshot(acked).reject_rate,
                      rejections_before |-> metrics.rejections,
                      rejections_after |-> acked.rejections]
          ELSE UNCHANGED <<submit_log, last_ack>>
       /\ UNCHANGED <<received, window_mark, last_emit>>

\* _emit_snapshot: snapshot(), then snapshot_window().
EmitSnapshot ==
    LET w == snapshot_window(metrics)
    IN /\ last_emit' =
            [called |-> TRUE,
             previous |-> IF last_emit.called THEN Len(last_emit.since) ELSE -1,
             since |-> SubSeq(submit_log, window_mark + 1, Len(submit_log)),
             snapshot |-> snapshot(metrics),
             window |-> w.report,
             snapshot_after |-> snapshot(w.metrics)]
       /\ metrics' = w.metrics
       /\ window_mark' = Len(submit_log)
       /\ UNCHANGED <<pending, received, submit_log, last_ack>>

(***************************************************************************)
(* executor/order_client.py: OrderLifecycleStore                           *)
(***************************************************************************)
MaxFilledNotional == 3      \* bound on filled_notional_usd

ClientOrderIds == {deterministic_client_order_id(i) : i \in SubmittedIntents}
FillAmounts == {1, 2}

\* OrderLifecycle; an id the dict does not hold has status "absent", and
\* "created" is the status of an OrderLifecycle before register sets it.
OrderLifecycle(status, filled_notional_usd) ==
    [status |-> status, filled_notional_usd |-> filled_notional_usd]
NoTransition == [client_order_id |-> "", from |-> "", to |-> ""]

\* OrderLifecycleStore()
LifecycleInit ==
    /\ orders = [c \in ClientOrderIds |-> OrderLifecycle("absent", 0)]
    /\ last_transition = NoTransition

\* register(submission): a new OrderLifecycle replaces whatever the dict
\* holds under the submission's id.
Register(client_order_id, accepted) ==
    LET status == IF accepted THEN "acknowledged" ELSE "rejected"
    IN /\ orders' = [orders EXCEPT ![client_order_id] = OrderLifecycle(status, 0)]
       /\ last_transition' =
            [client_order_id |-> client_order_id,
             from |-> IF orders[client_order_id].status = "absent" THEN "created"
                      ELSE orders[client_order_id].status,
             to |-> status]

\* mark_partial_fill(client_order_id, filled_notional_usd); an id the dict
\* does not hold raises KeyError.
MarkPartialFill(client_order_id, filled_notional_usd) ==
    /\ orders[client_order_id].status # "absent"
    /\ orders[client_order_id].filled_notional_usd + filled_notional_usd
         <= MaxFilledNotional
    /\ orders' = [orders EXCEPT
                    ![client_order_id].status = "partial_fill",
                    ![client_order_id].filled_notional_usd = @ + filled_notional_usd]
    /\ last_transition' =
         [client_order_id |-> client_order_id,
          from |-> orders[client_order_id].status, to |-> "partial_fill"]

\* mark_filled(client_order_id, filled_notional_usd)
MarkFilled(client_order_id, filled_notional_usd) ==
    /\ orders[client_order_id].status # "absent"
    /\ orders' = [orders EXCEPT
                    ![client_order_id].status = "filled",
                    ![client_order_id].filled_notional_usd = filled_notional_usd]
    /\ last_transition' =
         [client_order_id |-> client_order_id,
          from |-> orders[client_order_id].status, to |-> "filled"]

(***************************************************************************)
(* telemetry/pnl.py: PnLTracker                                            *)
(* Quantities are whole shares and prices are in tenths of a dollar; an    *)
(* average price and a realized sum are fractions [num, den] of that unit  *)
(* in lowest terms; fees are in units of 1e-5 dollar.                      *)
(***************************************************************************)
MaxPnlFills == 2        \* apply_fill calls in one behaviour

RECURSIVE Gcd(_, _)
Gcd(a, b) == IF b = 0 THEN a ELSE Gcd(b, a % b)
Frac(num, den) ==
    LET g == Gcd(Abs(num), den)
    IN [num |-> num \div g, den |-> den \div g]
FracInt(n) == [num |-> n, den |-> 1]
FracAdd(x, y) == Frac(x.num * y.den + y.num * x.den, x.den * y.den)
FracSub(x, y) == Frac(x.num * y.den - y.num * x.den, x.den * y.den)
FracTimes(x, n) == Frac(x.num * n, x.den)

PnlMarkets == {"m1", "m2"}
PnlOutcomes == {"Up", "Down"}
\* _key(market_id, outcome)
pnl_key(market_id, outcome) == market_id \o ":" \o outcome
PnlKeys == {pnl_key("m1", "Up"), pnl_key("m1", "Down"), pnl_key("m2", "Up")}
market_of(key) == CHOOSE m \in PnlMarkets : \E o \in PnlOutcomes : key = pnl_key(m, o)
outcome_of(key) == CHOOSE o \in PnlOutcomes : \E m \in PnlMarkets : key = pnl_key(m, o)
FillQtys == {1, 2}
FillPrices == {4, 6}
MarkPrices == {7}
\* The keys that receive a mark; the other keys fall back on avg_price.
MarkedKeys == {pnl_key("m1", "Up")}
\* The arguments of settle_market: a winning outcome or None, and the
\* settlement prices by outcome, -1 for an outcome the dict does not hold.
WinningOutcomes == {None, "Up"}
SettlePriceMaps ==
    {[o \in PnlOutcomes |-> -1],
     [o \in PnlOutcomes |-> IF o = "Up" THEN 5 ELSE -1]}

\* Position(); a key the dict does not hold is a flat position, which the
\* code treats the same way (setdefault, pos.qty == 0).
Position(qty, avg_price) == [qty |-> qty, avg_price |-> avg_price]
\* PnLTracker(fee_bps=...); a mark of -1 is a key _marks does not hold.
PnLTracker(fee_bps) ==
    [positions |-> [k \in PnlKeys |-> Position(0, FracInt(0))],
     marks |-> [k \in PnlKeys |-> -1],
     realized_trading |-> FracInt(0), realized_settled |-> FracInt(0),
     fees |-> 0, fee_bps |-> fee_bps]

\* set_mark(market_id, outcome, price)
set_mark(t, market_id, outcome, price) ==
    [t EXCEPT !.marks[pnl_key(market_id, outcome)] = price]

\* apply_fill(market_id, outcome, side, qty, price)
apply_fill(t, market_id, outcome, side, qty, price) ==
    LET key == pnl_key(market_id, outcome)
        pos == t.positions[key]
        fee == [t EXCEPT !.fees = @ + Abs(qty * price) * t.fee_bps]
        close_qty == Min(qty, pos.qty)
    IN IF side = "BUY"
       THEN IF pos.qty <= 0
            THEN [fee EXCEPT !.positions[key] = Position(qty, FracInt(price))]
            ELSE [fee EXCEPT !.positions[key] =
                     Position(pos.qty + qty,
                              Frac(pos.qty * pos.avg_price.num
                                     + qty * price * pos.avg_price.den,
                                   pos.avg_price.den * (pos.qty + qty)))]
       ELSE IF pos.qty > 0
            THEN [fee EXCEPT
                    !.realized_trading =
                        FracAdd(@, FracTimes(FracSub(FracInt(price), pos.avg_price),
                                             close_qty)),
                    !.positions[key] =
                        Position(pos.qty - close_qty,
                                 IF pos.qty - close_qty = 0 THEN FracInt(0)
                                 ELSE pos.avg_price)]
            ELSE [fee EXCEPT !.positions[key] =
                     Position(pos.qty - qty, FracInt(price))]

\* The settlement price settle_market finds for an outcome, -1 where the
\* code leaves settle_px at None.
settle_px_of(outcome, winning_outcome, outcome_settle_prices) ==
    IF outcome_settle_prices[outcome] # -1 THEN outcome_settle_prices[outcome]
    ELSE IF winning_outcome # None
    THEN (IF outcome = winning_outcome THEN 10 ELSE 0)
    ELSE -1

\* The keys settle_market settles: positions of the market that are open and
\* have a settlement price.
settled_keys(t, market_id, winning_outcome, outcome_settle_prices) ==
    {k \in PnlKeys :
        /\ market_of(k) = market_id
        /\ t.positions[k].qty # 0
        /\ settle_px_of(outcome_of(k), winning_outcome, outcome_settle_prices) # -1}

\* The sum of (settle_px - avg_price) * qty over a set of keys.
RECURSIVE settled_sum(_, _, _, _)
settled_sum(t, keys, winning_outcome, outcome_settle_prices) ==
    IF keys = {} THEN FracInt(0)
    ELSE LET k == CHOOSE k \in keys : TRUE
             px == settle_px_of(outcome_of(k), winning_outcome, outcome_settle_prices)
         IN FracAdd(FracTimes(FracSub(FracInt(px), t.positions[k].avg_price),
                              t.positions[k].qty),
                    settled_sum(t, keys \ {k}, winning_outcome, outcome_settle_prices))

\* settle_market that leaves the mark of a settled position as it was.
settle_market_keeps_mark(t, market_id, winning_outcome, outcome_settle_prices) ==
    LET keys == settled_keys(t, market_id, winning_outcome, outcome_settle_prices)
    IN [tracker |->
          [t EXCEPT
             !.realized_settled =
                 FracAdd(@, settled_sum(t, keys, winning_outcome, outcome_settle_prices)),
             !.positions = [k \in PnlKeys |->
                 IF k \in keys THEN Position(0, FracInt(0)) ELSE t.positions[k]]],
        settled |-> Cardinality(keys)]

\* settle_market(market_id, winning_outcome, outcome_settle_prices): the
\* tracker after the call and the count it returns.
settle_market(t, market_id, winning_outcome, outcome_settle_prices) ==
    LET keys == settled_keys(t, market_id, winning_outcome, outcome_settle_prices)
    IN [tracker |->
          [t EXCEPT
             !.realized_settled =
                 FracAdd(@, settled_sum(t, keys, winning_outcome, outcome_settle_prices)),
             !.positions = [k \in PnlKeys |->
                 IF k \in keys THEN Position(0, FracInt(0)) ELSE t.positions[k]],
             !.marks = [k \in PnlKeys |->
                 IF k \in keys
                 THEN settle_px_of(outcome_of(k), winning_outcome, outcome_settle_prices)
                 ELSE t.marks[k]]],
        settled |-> Cardinality(keys)]

\* The unrealized_usd of snapshot(), for a set of keys: the sum of
\* (mark - avg_price) * qty over the open positions among them, the mark
\* being avg_price where _marks has none.
RECURSIVE unrealized_of(_, _)
unrealized_of(t, keys) ==
    IF keys = {} THEN FracInt(0)
    ELSE LET k == CHOOSE k \in keys : TRUE
             pos == t.positions[k]
             mark == IF t.marks[k] = -1 THEN pos.avg_price ELSE FracInt(t.marks[k])
         IN FracAdd(IF pos.qty = 0 THEN FracInt(0)
                    ELSE FracTimes(FracSub(mark, pos.avg_price), pos.qty),
                    unrealized_of(t, keys \ {k}))

NoSettle ==
    [called |-> FALSE, market_id |-> "", winning_outcome |-> None,
     outcome_settle_prices |-> [o \in PnlOutcomes |-> -1],
     before |-> PnLTracker(0), settled |-> 0]

\* pnl = PnLTracker(fee_bps=cfg.execution.fee_bps)
PnlInit(fee_bps) ==
    /\ pnl \in {PnLTracker(f) : f \in fee_bps}
    /\ pnl_fills = 0
    /\ net_fills = [k \in PnlKeys |-> 0]
    /\ last_settle = NoSettle

\* pnl.set_mark(...) of main's receive step
SetMark(key, price) ==
    /\ pnl' = set_mark(pnl, market_of(key), outcome_of(key), price)
    /\ UNCHANGED <<pnl_fills, net_fills, last_settle>>

\* pnl.apply_fill(...) of an accepted order
ApplyFill(key, side, qty, price) ==
    /\ pnl_fills < MaxPnlFills
    /\ pnl_fills' = pnl_fills + 1
    /\ pnl' = apply_fill(pnl, market_of(key), outcome_of(key), side, qty, price)
    /\ net_fills' = [net_fills EXCEPT
                       ![key] = @ + (IF side = "BUY" THEN qty ELSE -qty)]
    /\ UNCHANGED last_settle

\* pnl.settle_market(...) of _reconcile_settlements, or of any other caller
SettleMarket(market_id, winning_outcome, outcome_settle_prices) ==
    LET r == settle_market(pnl, market_id, winning_outcome, outcome_settle_prices)
    IN /\ ~last_settle.called
       /\ pnl' = r.tracker
       /\ net_fills' = [k \in PnlKeys |->
             IF r.tracker.positions[k] # pnl.positions[k] THEN 0 ELSE net_fills[k]]
       /\ last_settle' =
             [called |-> TRUE, market_id |-> market_id,
              winning_outcome |-> winning_outcome,
              outcome_settle_prices |-> outcome_settle_prices,
              before |-> pnl, settled |-> r.settled]
       /\ UNCHANGED pnl_fills

(***************************************************************************)
(* main.py: the control flow of main, its stop flag, and the run_forever   *)
(* loops of the watcher threads.  What a stage computes is modelled by the *)
(* other components; here a stage either returns or raises.                *)
(***************************************************************************)
MaxRunEvents == 2       \* events the watchers enqueue in one behaviour

\* The calls of one loop iteration that touch storage, the network or the
\* telemetry files and are not inside a try block of main.
ReceiveStages == {"metrics", "pnl"}
FlushStages == {"policy", "risk", "submit", "metrics", "pnl", "audit"}
SnapshotStages == {"snapshot"}
RunLog(stop_pc, gets_after_stop, snapshots, finals, raised) ==
    [stop_pc |-> stop_pc, gets_after_stop |-> gets_after_stop,
     snapshots |-> snapshots, finals |-> finals, raised |-> raised]

\* main up to the while loop: watcher threads in their loops, handlers
\* installed
RunInit ==
    /\ main_pc = "test"
    /\ stop_event = FALSE
    /\ run_queue = 0
    /\ run_produced = 0
    /\ run_buckets = 0
    /\ run_due = 0
    /\ threads = [poller |-> "running", ws |-> "running"]
    /\ run_log = RunLog("", 0, FALSE, 0, "")

\* An exception leaves main: nothing in main catches it.
Raise(stage) ==
    /\ main_pc' = "raised"
    /\ run_log' = [run_log EXCEPT !.raised = stage]

\* _handle_signal: stop_event.set()
Signal ==
    /\ main_pc \notin {"exited", "raised"}
    /\ stop_event' = TRUE
    /\ run_log' = IF stop_event THEN run_log ELSE [run_log EXCEPT !.stop_pc = main_pc]
    /\ UNCHANGED <<main_pc, run_queue, run_produced, run_buckets, run_due, threads>>

\* while not stop_event.is_set()
LoopTest ==
    /\ main_pc = "test"
    /\ main_pc' = IF stop_event THEN "final" ELSE "get"
    /\ UNCHANGED <<stop_event, run_queue, run_produced, run_buckets, run_due,
                   threads, run_log>>

\* try: event = queue.get(timeout=0.1) ... except Empty: pass
LoopReceive ==
    /\ main_pc = "get"
    /\ IF run_queue = 0
       THEN /\ main_pc' = "due"
            /\ UNCHANGED <<run_queue, run_buckets, run_log>>
       ELSE /\ run_queue' = run_queue - 1
            /\ \/ /\ main_pc' = "due"
                  /\ run_buckets' \in {run_buckets + 1} \cup
                                      (IF run_buckets > 0 THEN {run_buckets} ELSE {})
                  /\ run_log' = [run_log EXCEPT
                        !.gets_after_stop = IF stop_event THEN @ + 1 ELSE @]
               \/ /\ \E stage \in ReceiveStages :
                        /\ main_pc' = "raised"
                        /\ run_log' = [run_log EXCEPT
                              !.raised = stage,
                              !.gets_after_stop = IF stop_event THEN @ + 1 ELSE @]
                  /\ UNCHANGED run_buckets
    /\ UNCHANGED <<stop_event, run_produced, run_due, threads>>

\* due_keys = [key for key, bucket in buckets.items() if ... >= coalesce_ms]
LoopDueKeys ==
    /\ main_pc = "due"
    /\ run_due' \in 0..run_buckets
    /\ main_pc' = "flush"
    /\ UNCHANGED <<stop_event, run_queue, run_produced, run_buckets, threads, run_log>>

\* for key in due_keys: bucket = buckets.pop(key); the stages, each of which
\* returns or raises
LoopFlushBucket ==
    /\ main_pc = "flush"
    /\ run_due > 0
    /\ run_due' = run_due - 1
    /\ run_buckets' = run_buckets - 1
    /\ \/ UNCHANGED <<main_pc, run_log>>
       \/ \E stage \in FlushStages : Raise(stage)
    /\ UNCHANGED <<stop_event, run_queue, run_produced, threads>>

\* if now_s - last_snapshot_s >= 30: _emit_snapshot(...)
LoopSnapshotCheck ==
    /\ main_pc = "flush"
    /\ run_due = 0
    /\ \/ main_pc' = "test" /\ UNCHANGED run_log
       \/ main_pc' = "test" /\ run_log' = [run_log EXCEPT !.snapshots = TRUE]
       \/ \E stage \in SnapshotStages : Raise(stage)
    /\ UNCHANGED <<stop_event, run_queue, run_produced, run_buckets, run_due, threads>>

\* _emit_snapshot(..., final=True); log.info("coinbot_shutdown_complete")
FinalSnapshot ==
    /\ main_pc = "final"
    /\ \/ /\ main_pc' = "exited"
          /\ run_log' = [run_log EXCEPT !.finals = @ + 1]
       \/ \E stage \in SnapshotStages : Raise(stage)
    /\ UNCHANGED <<stop_event, run_queue, run_produced, run_buckets, run_due, threads>>

\* The steps of the main thread.
MainStep ==
    LoopTest \/ LoopReceive \/ LoopDueKeys \/ LoopFlushBucket \/ LoopSnapshotCheck
    \/ FinalSnapshot

\* ActivityPoller.run_forever: one cycle that publishes an event, or one
\* that raises inside the try block, is logged and sleeps.
PollerCycle ==
    /\ threads.poller \in {"running", "backoff"}
    /\ \/ /\ run_produced < MaxRunEvents
          /\ run_produced' = run_produced + 1
          /\ run_queue' = run_queue + 1
          /\ threads' = [threads EXCEPT !.poller = "running"]
       \/ /\ threads' = [threads EXCEPT !.poller = "backoff"]
          /\ UNCHANGED <<run_produced, run_queue>>
    /\ UNCHANGED <<main_pc, stop_event, run_buckets, run_due, run_log>>

\* ReconnectingWsClient.run_forever: _connect_once delivers a message, or
\* raises, is logged and backs off.
WsCycle ==
    /\ threads.ws \in {"running", "backoff"}
    /\ \/ /\ run_produced < MaxRunEvents
          /\ run_produced' = run_produced + 1
          /\ run_queue' = run_queue + 1
          /\ threads' = [threads EXCEPT !.ws = "running"]
       \/ /\ threads' = [threads EXCEPT !.ws = "backoff"]
          /\ UNCHANGED <<run_produced, run_queue>>
    /\ UNCHANGED <<main_pc, stop_event, run_buckets, run_due, run_log>>

(***************************************************************************)
(* main.py: the ingress queue as the hand-off between the two producer     *)
(* threads and the main thread.                                            *)
(***************************************************************************)
\* An event that was put on the queue before the events the model lists.
BacklogEvent == TradeEvent("old", "m1", "Up", "BUY", 5, 0, NoWindow, "clob_ws")

\* Queue(maxsize=5000) after construction, line 71.
HandoffIdle ==
    /\ queue_backlog = 0
    /\ queue_drops = <<>>
    /\ delivered = <<>>
\* The queue when main has not called queue.get for a while: empty, or full
\* of events that were put before.
HandoffInit ==
    /\ queue_backlog \in {0, QueueMaxsize}
    /\ queue_drops = <<>>
    /\ delivered = <<>>

\* _enqueue, lines 91-94: queue.put(event, timeout=1) raises Full when no slot
\* became free within the second; the except logs event_queue_full and
\* _enqueue returns normally.
NoteDrop(event) ==
    /\ queue_drops' = IF queue' = queue THEN Append(queue_drops, event)
                      ELSE queue_drops
    /\ UNCHANGED <<queue_backlog, delivered>>

\* main, line 127: event = queue.get(timeout=0.1) returns the oldest event.
QueueGet ==
    /\ Len(delivered) < MaxGets
    /\ IF queue_backlog > 0
       THEN /\ queue_backlog' = queue_backlog - 1
            /\ delivered' = Append(delivered, BacklogEvent)
            /\ UNCHANGED queue
       ELSE /\ queue # <<>>
            /\ queue' = Tail(queue)
            /\ delivered' = Append(delivered, Head(queue))
            /\ UNCHANGED queue_backlog
    /\ UNCHANGED <<activity, ws_feed, source_checkpoint, poller, enqueueLog,
                   processed_events, queue_drops>>

(***************************************************************************)
(* watcher/ws_client.py: ReconnectingWsClient.run_forever                  *)
(***************************************************************************)
max_backoff_s == 30     \* __init__: max_backoff_s: int = 30

\* run_forever, line 36: backoff_s = 1, before the loop.
BackoffInit ==
    /\ ws_client = [pc |-> "test", backoff_s |-> 1, stop |-> FALSE]
    /\ ws_waits = <<>>
BackoffIdle == BackoffInit

\* The except branch, lines 43-45: log ws_loop_error and sleep backoff_s.
Failure(after_connected) ==
    /\ Len(ws_waits) < MaxWsFailures
    /\ ws_client' = [ws_client EXCEPT !.pc = "sleeping"]
    /\ ws_waits' = Append(ws_waits, [wait |-> ws_client.backoff_s,
                                     after_connected |-> after_connected])

\* line 37: while not self._stop_event.is_set().
WsLoopTest ==
    /\ ws_client.pc = "test"
    /\ ws_client' = [ws_client EXCEPT
                       !.pc = IF ws_client.stop THEN "done" ELSE "connecting"]
    /\ UNCHANGED ws_waits

\* _connect_once, lines 52-58: websockets.connect or _subscribe raises.
WsConnectFails ==
    /\ ws_client.pc = "connecting"
    /\ Failure(FALSE)

\* _connect_once, lines 52-59: connected and subscribed, ws_connected logged.
WsConnectOk ==
    /\ ws_client.pc = "connecting"
    /\ ws_client' = [ws_client EXCEPT !.pc = "connected"]
    /\ UNCHANGED ws_waits

\* _connect_once, lines 60-73: ws.recv raises ConnectionClosed, or _parse or
\* the handler raises; the exception leaves _connect_once.
WsConnectionLost ==
    /\ ws_client.pc = "connected"
    /\ Failure(TRUE)

\* _connect_once returns only when its loop sees the stop event (line 60);
\* then line 40 runs: backoff_s = 1.
WsConnectReturns ==
    /\ ws_client.pc = "connected"
    /\ ws_client.stop
    /\ ws_client' = [ws_client EXCEPT !.pc = "test", !.backoff_s = 1]
    /\ UNCHANGED ws_waits

\* lines 45-46: the sleep ends; backoff_s = min(backoff_s * 2, max_backoff_s).
WsWake ==
    /\ ws_client.pc = "sleeping"
    /\ ws_client' = [ws_client EXCEPT !.pc = "test",
                       !.backoff_s = Min(ws_client.backoff_s * 2, max_backoff_s)]
    /\ UNCHANGED ws_waits

\* stop(): self._stop_event.set().
WsStop ==
    /\ ~ws_client.stop
    /\ ws_client' = [ws_client EXCEPT !.stop = TRUE]
    /\ UNCHANGED ws_waits

(***************************************************************************)
(* main.py and executor/market_cache.py: the threads of the process and    *)
(* the structures they write.                                              *)
(***************************************************************************)
Threads == {"main", "poller", "ws"}
Producers == {"poller", "ws"}
\* The state store, the ingress queue, the pipeline state of main, and the
\* map of the metadata cache.
Structures ==
    {"state_store", "queue", "buckets", "risk", "pnl", "metrics", "market_cache"}
PipelineStructures == {"buckets", "risk", "pnl", "metrics"}
\* event.market_slug and event.market_id of the model's one market.
CacheKeys == {"slug1", "m1"}
WarmKeys == <<"slug1", "m1">>

ThreadIdle == [pc |-> "idle", keys |-> <<>>]
ThreadsInit ==
    /\ thread_pc = [t \in Threads |-> ThreadIdle]
    /\ cache_map = [k \in CacheKeys |-> [state |-> "absent", by |-> ""]]
    /\ handed = 0
    /\ thread_events = 0
    /\ writes = [s \in Structures |-> {}]
ThreadsIdle == ThreadsInit

\* The structures in ss have been written by thread t.
Written(t, ss) ==
    [s \in Structures |-> IF s \in ss THEN writes[s] \cup {t} ELSE writes[s]]

\* source_activity.run_forever, lines 104-117: mark_seen inserted the row and
\* the poller calls _on_trade_event, which is main._enqueue.
PollerHandsEvent ==
    /\ thread_pc["poller"].pc = "idle"
    /\ thread_events < MaxThreadEvents
    /\ thread_events' = thread_events + 1
    /\ thread_pc' = [thread_pc EXCEPT !["poller"] = [pc |-> "warm", keys |-> WarmKeys]]
    /\ writes' = Written("poller", {"state_store"})
    /\ UNCHANGED <<cache_map, handed>>

\* source_ws._on_message: a trade of the wallet, handed to main._enqueue.
WsHandsEvent ==
    /\ thread_pc["ws"].pc = "idle"
    /\ thread_events < MaxThreadEvents
    /\ thread_events' = thread_events + 1
    /\ thread_pc' = [thread_pc EXCEPT !["ws"] = [pc |-> "warm", keys |-> WarmKeys]]
    /\ UNCHANGED <<cache_map, handed, writes>>

\* MarketMetadataCache.get, lines 32-35, for the next key of thread t: a
\* fresh entry is served, otherwise the thread goes to fetch (an HTTP call).
\* after is the pc of the thread once it has no key left.
CacheLookup(t, at, fetching, after) ==
    LET key == Head(thread_pc[t].keys)
        rest == Tail(thread_pc[t].keys)
    IN /\ thread_pc[t].pc = at
       /\ thread_pc' = [thread_pc EXCEPT ![t] =
              IF cache_map[key].state = "fresh"
              THEN [pc |-> IF rest = <<>> THEN after ELSE at, keys |-> rest]
              ELSE [pc |-> fetching, keys |-> thread_pc[t].keys]]
       /\ UNCHANGED <<cache_map, handed, thread_events, writes>>

\* MarketMetadataCache.get, lines 36-37: self._cache[market_id] = (now, meta).
CacheStore(t, fetching, at, after) ==
    LET key == Head(thread_pc[t].keys)
        rest == Tail(thread_pc[t].keys)
    IN /\ thread_pc[t].pc = fetching
       /\ cache_map' = [cache_map EXCEPT ![key] = [state |-> "fresh", by |-> t]]
       /\ thread_pc' = [thread_pc EXCEPT ![t] =
              [pc |-> IF rest = <<>> THEN after ELSE at, keys |-> rest]]
       /\ writes' = Written(t, {"market_cache"})
       /\ UNCHANGED <<handed, thread_events>>

\* main._enqueue, line 90, on the thread of the producer:
\* market_cache.warm([event.market_slug, event.market_id]) loads each key
\* that the cache does not hold.
WarmLookup(t) == CacheLookup(t, "warm", "warm_fetch", "put")
WarmStore(t) == CacheStore(t, "warm_fetch", "warm", "put")

\* main._enqueue, lines 91-94: queue.put; then the poller sets the checkpoint
\* (run_forever 118-119) and the socket watcher waits for the next message.
EnqueuePut(t) ==
    /\ thread_pc[t].pc = "put"
    /\ handed' = handed + 1
    /\ writes' = Written(t, {"queue"})
    /\ thread_pc' = [thread_pc EXCEPT ![t] =
           [pc |-> IF t = "poller" THEN "checkpoint" ELSE "idle", keys |-> <<>>]]
    /\ UNCHANGED <<cache_map, thread_events>>
PollerSetsCheckpoint ==
    /\ thread_pc["poller"].pc = "checkpoint"
    /\ thread_pc' = [thread_pc EXCEPT !["poller"] = ThreadIdle]
    /\ writes' = Written("poller", {"state_store"})
    /\ UNCHANGED <<cache_map, handed, thread_events>>

\* main, lines 126-144: queue.get, record_event_receive, set_mark, the bucket.
MainReceives ==
    /\ thread_pc["main"].pc = "idle"
    /\ handed > 0
    /\ handed' = handed - 1
    /\ writes' = Written("main", {"queue", "metrics", "pnl", "buckets"})
    /\ UNCHANGED <<thread_pc, cache_map, thread_events>>

\* main, lines 151-437 in live mode: the flush of a bucket commits risk
\* budget and submits; the order client resolves the token id from the cache
\* (_resolve_token_id, keys market_slug and market_id).
MainFlushes ==
    /\ thread_pc["main"].pc = "idle"
    /\ "main" \in writes["buckets"]
    /\ thread_pc' = [thread_pc EXCEPT !["main"] = [pc |-> "get", keys |-> WarmKeys]]
    /\ writes' = Written("main", {"buckets", "risk", "metrics", "pnl"})
    /\ UNCHANGED <<cache_map, handed, thread_events>>

\* _emit_snapshot, lines 543-589: _reconcile_settlements reads the cache for
\* each open market, settles, and the metrics snapshot is taken.
MainSnapshots ==
    /\ thread_pc["main"].pc = "idle"
    /\ "main" \in writes["pnl"]
    /\ thread_pc' = [thread_pc EXCEPT !["main"] = [pc |-> "get", keys |-> <<"m1">>]]
    /\ writes' = Written("main", {"pnl", "metrics"})
    /\ UNCHANGED <<cache_map, handed, thread_events>>
MainCacheLookup == CacheLookup("main", "get", "get_fetch", "idle")
MainCacheStore == CacheStore("main", "get_fetch", "get", "idle")

\* ttl_s (60 s) passes for an entry.
CacheExpires(key) ==
    /\ cache_map[key].state = "fresh"
    /\ cache_map' = [cache_map EXCEPT ![key].state = "stale"]
    /\ UNCHANGED <<thread_pc, handed, thread_events, writes>>

(***************************************************************************)
(* executor/order_client.py: ClobOrderClient._submit_with_py_clob and      *)
(* _post_with_refresh.                                                     *)
(***************************************************************************)
\* What client.post_order answers: a response, or an exception with a text.
SdkErrors == {"Unauthorized", "Invalid API key", "insufficient balance"}
SdkAnswers == {"ok"} \cup SdkErrors
\* str(exc).lower()
lower(text) ==
    CASE text = "Unauthorized" -> "unauthorized"
      [] text = "Invalid API key" -> "invalid api key"
      [] OTHER -> text
\* The retry is made after any error.
asks_refresh_any(exc) == TRUE
\* _post_with_refresh, line 243, negated: the text asks for new credentials.
asks_refresh(exc) == lower(exc) \in {"invalid api key", "unauthorized"}

SdkIdle ==
    /\ sdk = [pc |-> "idle", has_client |-> FALSE, posts |-> 0, refreshes |-> 0,
              derives |-> 0, errors |-> <<>>, result |-> "none"]
    /\ sdk_log = <<>>
SdkInit == SdkIdle

\* The call returns result: an OrderSubmission that is acknowledged or
\* rejected, or None (fallback to _post_with_retry).
SdkReturn(call, result) ==
    /\ sdk' = [call EXCEPT !.pc = "idle", !.result = result]
    /\ sdk_log' = Append(sdk_log, [posts |-> call.posts, refreshes |-> call.refreshes,
                                   errors |-> call.errors, result |-> result])

\* _submit_with_py_clob, lines 142-160: resolve the token id, get or create
\* the SDK client (created once; without configured credentials the first
\* use derives them), build the order.
SdkSubmit(token_found, configured) ==
    LET call == [sdk EXCEPT !.posts = 0, !.refreshes = 0, !.derives = 0,
                            !.errors = <<>>, !.result = "none"]
    IN /\ sdk.pc = "idle"
       /\ Len(sdk_log) < MaxSdkCalls
       /\ IF ~token_found
          THEN SdkReturn(call, "fallback")
          ELSE /\ sdk' = [call EXCEPT !.pc = "post", !.has_client = TRUE,
                                      !.derives = IF sdk.has_client \/ configured
                                                  THEN 0 ELSE 1]
               /\ UNCHANGED sdk_log

\* _post_with_refresh, lines 238-244: the first post_order.
SdkPost(answer) ==
    LET call == [sdk EXCEPT !.posts = @ + 1,
                            !.errors = IF answer = "ok" THEN @ ELSE Append(@, answer)]
    IN /\ sdk.pc = "post"
       /\ IF answer = "ok" THEN SdkReturn(call, "acknowledged")
          ELSE IF asks_refresh(answer)
          THEN sdk' = [call EXCEPT !.pc = "refresh"] /\ UNCHANGED sdk_log
          ELSE SdkReturn(call, "rejected")

\* line 246: client.set_api_creds(client.create_or_derive_api_creds()), which
\* can raise itself.
SdkRefresh(ok) ==
    LET call == [sdk EXCEPT !.refreshes = @ + 1]
    IN /\ sdk.pc = "refresh"
       /\ IF ok THEN sdk' = [call EXCEPT !.pc = "retry"] /\ UNCHANGED sdk_log
          ELSE SdkReturn(call, "rejected")

\* lines 247-248: the second post_order; its exception reaches the except of
\* _submit_with_py_clob (170-181), which returns a rejected submission.
SdkRetryPost(answer) ==
    LET call == [sdk EXCEPT !.posts = @ + 1,
                            !.errors = IF answer = "ok" THEN @ ELSE Append(@, answer)]
    IN /\ sdk.pc = "retry"
       /\ IF answer = "ok" THEN SdkReturn(call, "acknowledged")
          ELSE SdkReturn(call, "rejected")

(***************************************************************************)
(* decision_engine/policy.py: WindowRiskTracker while the date changes.    *)
(***************************************************************************)
DaysInit ==
    /\ utc_day = 0
    /\ day_admitted = 0
DaysIdle == DaysInit

\* The clock passes 00:00 UTC.  WindowRiskTracker keeps no date and main
\* calls nothing of it but check_and_apply, so its fields stay as they are.
Midnight ==
    /\ utc_day < MaxMidnights
    /\ utc_day' = utc_day + 1
    /\ day_admitted' = 0
    /\ UNCHANGED riskVars

\* check_and_apply on the current day.
CheckAndApplyToday(intent) ==
    /\ CheckAndApply(intent)
    /\ day_admitted' = IF riskSnap'.blocked THEN day_admitted
                       ELSE day_admitted + intent.target_notional_usd
    /\ UNCHANGED utc_day

(***************************************************************************)
(* main.py: the loop's telemetry feeding AutoKillGuard (_emit_snapshot)    *)
(***************************************************************************)
\* A reject rate as the guard compares it with thresholds given in percent:
\* rate > t and rate <= t for a whole percentage t are decided by the rate
\* rounded up to a whole percentage.
rate_percent(rate) == (rate.num * 100 + rate.den - 1) \div rate.den

\* int(window_snapshot.copy_delay_ms.p95 if window_snapshot.copy_delay_ms else 0)
p95_or_zero(copy_delay_ms) ==
    IF copy_delay_ms.empty THEN 0 ELSE copy_delay_ms.p95

CyclesInit ==
    /\ cycles_active = 0
    /\ self_recovered = FALSE
CyclesIdle == CyclesInit

\* main.py line 126-144: queue.get and record_event_receive.
ReceiveEvent(key, ts_ms) ==
    /\ MetricsReceive(key, ts_ms)
    /\ UNCHANGED <<guardVars, cyclesVars>>

\* main.py lines 151-437 for a due bucket: with the switch active the bucket
\* nets to nothing or stops at line 216; otherwise it never stops there.
FlushBucket(key, correlation_id, outcome, ts_ms, latency) ==
    /\ IF kill_switch_blocks(kill_switch)
       THEN outcome \in {"no_intent", "kill_switch"}
       ELSE outcome # "kill_switch"
    /\ MetricsFlush(key, correlation_id, outcome, ts_ms, latency)
    /\ UNCHANGED <<guardVars, cyclesVars>>

\* _emit_snapshot, main.py lines 543-567: snapshot(), snapshot_window(), and
\* outside dry-run mode auto_kill.evaluate on the window's readings.
EmitSnapshotAndEvaluate ==
    LET w == snapshot_window(metrics).report
        r == evaluate(kill_switch, healthy_streak, thresholds,
                      rate_percent(w.reject_rate), p95_or_zero(w.copy_delay_ms))
    IN /\ EmitSnapshot
       /\ IF execution.dry_run
          THEN UNCHANGED <<kill_switch, healthy_streak, cyclesVars>>
          ELSE /\ kill_switch' = r.ks
               /\ healthy_streak' = r.streak
               /\ cycles_active' = IF kill_switch.active /\ r.ks.active
                                   THEN cycles_active + 1 ELSE 0
               /\ self_recovered' = (self_recovered
                                       \/ (kill_switch.active /\ ~r.ks.active))
       /\ UNCHANGED <<thresholds, evalTrace>>

(***************************************************************************)
(* decision_engine/coalescer.py: push and _flush_after as coroutines.  A   *)
(* coroutine runs on the event loop until an await suspends it; push n is  *)
(* coroutine n and the flush task that push n creates is coroutine -n.     *)
(***************************************************************************)
TaskKeys == {"m1:na", "m1:w1"}

\* `async with self._lock` on a lock that suspends the caller even when free.
acquire_always_suspends(holder) == TRUE

\* `async with self._lock`: asyncio.Lock.acquire returns at once when the lock
\* is free and suspends the caller only when it is held.
acquire_suspends(holder) == holder # 0

NoPush == [pc |-> "new", key |-> ""]
NoFlush == [pc |-> "none", events |-> <<>>]

TasksInit ==
    /\ co_events_by_key = [k \in TaskKeys |-> <<>>]
    /\ co_timers = [k \in TaskKeys |-> 0]
    /\ co_lock = 0
    /\ co_running = 0
    /\ co_push = [n \in 1..MaxTaskPushes |-> NoPush]
    /\ co_flush = [n \in 1..MaxTaskPushes |-> NoFlush]
    /\ co_taken = <<>>
TasksIdle == TasksInit

\* await coalescer.push(event): key = self._coalesce_key(event), line 27.
PushCall(n, key) ==
    /\ co_running = 0
    /\ co_push[n].pc = "new"
    /\ \A i \in 1..(n - 1) : co_push[i].pc # "new"
    /\ co_push' = [co_push EXCEPT ![n] = [pc |-> "acquire", key |-> key]]
    /\ co_running' = n
    /\ UNCHANGED <<co_events_by_key, co_timers, co_lock, co_flush, co_taken>>

\* Line 28, `async with self._lock`: enter, or wait for the lock and enter
\* when the loop resumes the waiter.
PushAcquire(n) ==
    LET waiting == co_push[n].pc = "acquire_wait"
    IN /\ co_push[n].pc \in {"acquire", "acquire_wait"}
       /\ co_running = IF waiting THEN 0 ELSE n
       /\ IF ~waiting /\ acquire_suspends(co_lock)
          THEN /\ co_push' = [co_push EXCEPT ![n].pc = "acquire_wait"]
               /\ co_running' = 0
               /\ UNCHANGED co_lock
          ELSE /\ co_lock = 0
               /\ co_lock' = n
               /\ co_running' = n
               /\ co_push' = [co_push EXCEPT ![n].pc = "append"]
       /\ UNCHANGED <<co_events_by_key, co_timers, co_flush, co_taken>>

\* Lines 29-31: append the event, create the flush task of a key that has no
\* timer, leave the lock and return.
PushAppend(n) ==
    LET key == co_push[n].key
    IN /\ co_running = n
       /\ co_push[n].pc = "append"
       /\ co_events_by_key' = [co_events_by_key EXCEPT ![key] = Append(@, n)]
       /\ IF co_timers[key] = 0
          THEN /\ co_timers' = [co_timers EXCEPT ![key] = n]
               /\ co_flush' = [co_flush EXCEPT ![n].pc = "sleep"]
          ELSE UNCHANGED <<co_timers, co_flush>>
       /\ co_lock' = 0
       /\ co_push' = [co_push EXCEPT ![n].pc = "done"]
       /\ co_running' = 0
       /\ UNCHANGED co_taken

\* Line 37: the sleep of coalesce_ms is over and the loop resumes the task.
FlushWake(n) ==
    /\ co_running = 0
    /\ co_flush[n].pc = "sleep"
    /\ co_flush' = [co_flush EXCEPT ![n].pc = "acquire"]
    /\ co_running' = -n
    /\ UNCHANGED <<co_events_by_key, co_timers, co_lock, co_push, co_taken>>

\* Lines 38 and 47, `async with self._lock` in the body and in finally.
FlushAcquire(n) ==
    LET pc == co_flush[n].pc
        waiting == pc \in {"acquire_wait", "finally_wait"}
        entered == IF pc \in {"acquire", "acquire_wait"} THEN "pop" ELSE "unregister"
    IN /\ pc \in {"acquire", "acquire_wait", "finally", "finally_wait"}
       /\ co_running = IF waiting THEN 0 ELSE -n
       /\ IF ~waiting /\ acquire_suspends(co_lock)
          THEN /\ co_flush' = [co_flush EXCEPT ![n].pc = pc \o "_wait"]
               /\ co_running' = 0
               /\ UNCHANGED co_lock
          ELSE /\ co_lock = 0
               /\ co_lock' = -n
               /\ co_running' = -n
               /\ co_flush' = [co_flush EXCEPT ![n].pc = entered]
       /\ UNCHANGED <<co_events_by_key, co_timers, co_push, co_taken>>

\* Lines 39-40: pop the events and the timer of the key, leave the lock.
FlushPop(n) ==
    LET key == co_push[n].key
        events == co_events_by_key[key]
    IN /\ co_running = -n
       /\ co_flush[n].pc = "pop"
       /\ co_events_by_key' = [co_events_by_key EXCEPT ![key] = <<>>]
       /\ co_timers' = [co_timers EXCEPT ![key] = 0]
       /\ co_lock' = 0
       /\ co_flush' = [co_flush EXCEPT ![n] = [pc |-> "put", events |-> events]]
       /\ co_taken' = co_taken \o [i \in 1..Len(events) |->
                                     [event |-> events[i], task |-> n]]
       /\ UNCHANGED <<co_push, co_running>>

\* Lines 41-45: return on no events, else _to_intent and `await self._out.put`,
\* which does not suspend on a queue without maxsize.
FlushPut(n) ==
    /\ co_running = -n
    /\ co_flush[n].pc = "put"
    /\ co_flush' = [co_flush EXCEPT ![n].pc = "finally"]
    /\ UNCHANGED <<co_events_by_key, co_timers, co_lock, co_running, co_push,
                   co_taken>>

\* Line 48: self._timers.pop(key, None) in finally; the task ends.
FlushUnregister(n) ==
    /\ co_running = -n
    /\ co_flush[n].pc = "unregister"
    /\ co_timers' = [co_timers EXCEPT ![co_push[n].key] = 0]
    /\ co_lock' = 0
    /\ co_flush' = [co_flush EXCEPT ![n].pc = "done"]
    /\ co_running' = 0
    /\ UNCHANGED <<co_events_by_key, co_push, co_taken>>

\* The steps the event loop does not put off for ever: a coroutine that was
\* started goes on, and a sleep ends.
EventLoopStep ==
    \E n \in 1..MaxTaskPushes :
        PushAcquire(n) \/ PushAppend(n) \/ FlushWake(n) \/ FlushAcquire(n)
          \/ FlushPop(n) \/ FlushPut(n) \/ FlushUnregister(n)

(***************************************************************************)
(* Specifications                                                          *)
(***************************************************************************)
DefaultRecovery == 2    \* AutoKillThresholds.recovery_consecutive_snapshots

GuardIdle == GuardInit({DefaultRecovery})
RiskIdle == RiskInit({MaxCap})
PipelineIdle ==
    PipelineInit({TRUE}, {TRUE}, PolicySizings)
CoalescerIdle == CoalescerInit({TRUE})
PolicyIdle == PolicyInit({CHOOSE z \in ApplySizings : TRUE}, {CHOOSE c \in ApplyCalls : TRUE})
OrderIdle == OrderInit({MaxRetries})
PnlIdle == PnlInit({0})
EarlyIdle ==
    /\ GuardIdle /\ RiskIdle /\ DedupeInit /\ IntakeInit /\ PipelineIdle
    /\ CoalescerIdle /\ PolicyIdle /\ OrderIdle /\ MetricsInit
    /\ LifecycleInit /\ PnlIdle /\ RunInit
LateIdle == HandoffIdle /\ BackoffIdle /\ ThreadsIdle /\ SdkIdle /\ DaysIdle /\ CyclesIdle /\ TasksIdle
handoffOtherIdle == BackoffIdle /\ ThreadsIdle /\ SdkIdle /\ DaysIdle /\ CyclesIdle /\ TasksIdle
backoffOtherIdle == HandoffIdle /\ ThreadsIdle /\ SdkIdle /\ DaysIdle /\ CyclesIdle /\ TasksIdle
threadsOtherIdle == HandoffIdle /\ BackoffIdle /\ SdkIdle /\ DaysIdle /\ CyclesIdle /\ TasksIdle
sdkOtherIdle == HandoffIdle /\ BackoffIdle /\ ThreadsIdle /\ DaysIdle /\ CyclesIdle /\ TasksIdle
daysOtherIdle == HandoffIdle /\ BackoffIdle /\ ThreadsIdle /\ SdkIdle /\ CyclesIdle /\ TasksIdle
cyclesOtherIdle == HandoffIdle /\ BackoffIdle /\ ThreadsIdle /\ SdkIdle /\ DaysIdle /\ TasksIdle
tasksOtherIdle == HandoffIdle /\ BackoffIdle /\ ThreadsIdle /\ SdkIdle /\ DaysIdle /\ CyclesIdle
SupportIdle == PnlIdle /\ RunInit /\ LateIdle
DownstreamIdle ==
    PolicyIdle /\ OrderIdle /\ MetricsInit /\ LifecycleInit /\ SupportIdle

InitGuard ==
    /\ GuardInit(1..MaxRecovery) /\ RiskIdle /\ DedupeInit
    /\ IntakeInit /\ PipelineIdle /\ CoalescerIdle /\ DownstreamIdle
NextGuard ==
    \E e \in ErrorRates, l \in Latencies :
        Evaluate(e, l)
          /\ UNCHANGED <<riskVars, dedupeVars, intakeVars, pipelineVars,
                         coalescerVars, downstreamVars>>
SpecGuard == InitGuard /\ [][NextGuard]_vars

InitRisk ==
    /\ GuardIdle /\ RiskInit(1..MaxCap) /\ DedupeInit
    /\ IntakeInit /\ PipelineIdle /\ CoalescerIdle /\ DownstreamIdle
NextRisk ==
    \E i \in RiskIntents :
        CheckAndApply(i)
          /\ UNCHANGED <<guardVars, dedupeVars, intakeVars, pipelineVars,
                         coalescerVars, downstreamVars>>
SpecRisk == InitRisk /\ [][NextRisk]_vars

InitDedupe ==
    /\ GuardIdle /\ RiskIdle /\ DedupeInit
    /\ IntakeInit /\ PipelineIdle /\ CoalescerIdle /\ DownstreamIdle
dedupeRest == <<guardVars, riskVars, intakeVars, pipelineVars, coalescerVars,
                downstreamVars>>
NextDedupe ==
    \/ \E p \in Callers : Reopen(p) /\ UNCHANGED dedupeRest
    \/ \E p \in Callers, key \in EventKeys :
          MarkSeenBegin(p, key) /\ UNCHANGED dedupeRest
    \/ \E p \in Callers : MarkSeenExecute(p) /\ UNCHANGED dedupeRest
    \/ \E p \in Callers : MarkSeenLocked(p) /\ UNCHANGED dedupeRest
    \/ \E p \in Callers :
          MarkSeenCommitReturn(p) /\ UNCHANGED dedupeRest
SpecDedupe == InitDedupe /\ [][NextDedupe]_vars

intakeRest == <<guardVars, riskVars, wal_writer, wal_pending, store_reopened,
                mark_call, markLog, pipelineVars, coalescerVars,
                downstreamVars>>
InitIntake ==
    /\ GuardIdle /\ RiskIdle /\ DedupeInit
    /\ IntakeInit /\ PipelineIdle /\ CoalescerIdle /\ DownstreamIdle
NextIntake ==
    \/ SourceFill /\ UNCHANGED intakeRest
    \/ PollFetch /\ UNCHANGED intakeRest
    \/ PollMarkSeen /\ UNCHANGED intakeRest
    \/ PollMarkSeenError /\ UNCHANGED intakeRest
    \/ PollerRestart /\ UNCHANGED intakeRest
    \/ PollPublish /\ UNCHANGED intakeRest
    \/ PollCheckpoint /\ UNCHANGED intakeRest
    \/ \E n \in 1..MaxFills : WsOnMessage(n) /\ UNCHANGED intakeRest
SpecIntake == InitIntake /\ [][NextIntake]_vars

\* The poller alone on upstream rows of every kind; the thread is scheduled
\* again and again (its loop only sleeps poll_interval_s between polls).
NextPollRows ==
    \/ \E kind \in RowKinds : SourceFillRow(kind) /\ UNCHANGED intakeRest
    \/ PollFetch /\ UNCHANGED intakeRest
    \/ PollNormalizeSkip /\ UNCHANGED intakeRest
    \/ PollNormalizeError /\ UNCHANGED intakeRest
    \/ PollMarkSeen /\ UNCHANGED intakeRest
    \/ PollPublish /\ UNCHANGED intakeRest
    \/ PollCheckpoint /\ UNCHANGED intakeRest
SpecPollRows ==
    InitIntake /\ [][NextPollRows]_vars /\ WF_vars(PollerStep /\ UNCHANGED intakeRest)

\* The two producers and queue.get of the main thread, on a queue that starts
\* empty or full.
handoffRest == <<guardVars, riskVars, wal_writer, wal_pending, store_reopened,
                 mark_call, markLog, pipelineVars, coalescerVars, policyVars,
                 orderVars, metricsVars, lifecycleVars, pnlVars, runVars,
                 handoffOtherVars>>
InitHandoff == EarlyIdle /\ HandoffInit /\ handoffOtherIdle
NextHandoff ==
    \/ SourceFill /\ UNCHANGED <<handoffVars, handoffRest>>
    \/ PollFetch /\ UNCHANGED <<handoffVars, handoffRest>>
    \/ PollMarkSeen /\ UNCHANGED <<handoffVars, handoffRest>>
    \/ /\ PollPublish /\ NoteDrop(normalize(Head(poller.candidates)))
       /\ UNCHANGED handoffRest
    \/ PollCheckpoint /\ UNCHANGED <<handoffVars, handoffRest>>
    \/ \E n \in 1..MaxFills :
         /\ WsOnMessage(n) /\ NoteDrop(normalize_trade(RawRow(n)))
         /\ UNCHANGED handoffRest
    \/ QueueGet /\ UNCHANGED handoffRest
SpecHandoff == InitHandoff /\ [][NextHandoff]_vars

pipelineRest == <<dedupeVars, activity, ws_feed, source_checkpoint, poller,
                  enqueueLog, coalescerVars, downstreamVars>>
InitPipeline ==
    /\ GuardIdle /\ RiskIdle /\ DedupeInit /\ IntakeInit
    /\ PipelineInit(BOOLEAN, BOOLEAN, PolicySizings)
    /\ CoalescerIdle /\ DownstreamIdle
NextPipeline ==
    \/ \E e \in PublishedEvents(produced + 1) :
          Produce(e) /\ UNCHANGED pipelineRest
    \/ Tick /\ UNCHANGED pipelineRest
    \/ LoopGet /\ UNCHANGED pipelineRest
    \/ \E a \in ExchangeAnswers : LoopFlush(a) /\ UNCHANGED pipelineRest
    \/ \E e \in ErrorRates, l \in Latencies :
          LoopSnapshot(e, l) /\ UNCHANGED pipelineRest
    \/ LoopNoSnapshot /\ UNCHANGED pipelineRest
SpecPipeline == InitPipeline /\ [][NextPipeline]_vars

coalescerRest == <<guardVars, riskVars, dedupeVars, intakeVars, copy_cfg,
                   execution, policy_sizing, produced, buckets, loop, flushed,
                   consumed, downstreamVars>>
InitCoalescer ==
    /\ GuardIdle /\ RiskIdle /\ DedupeInit /\ IntakeInit /\ PipelineIdle
    /\ CoalescerInit(BOOLEAN) /\ DownstreamIdle
NextCoalescer ==
    \/ \E e \in PushedEvents(pushed + 1) :
          Push(e) /\ UNCHANGED <<now_ms, coalescerRest>>
    \/ \E t \in timers : FlushAfter(t) /\ UNCHANGED <<now_ms, coalescerRest>>
    \/ NextIntent /\ UNCHANGED <<now_ms, coalescerRest>>
    \/ Tick /\ UNCHANGED <<dedupeVars, activity, ws_feed, source_checkpoint,
                            poller, enqueueLog, coalescerVars, downstreamVars>>
SpecCoalescer == InitCoalescer /\ [][NextCoalescer]_vars

policyRest == <<guardVars, riskVars, dedupeVars, intakeVars, pipelineVars,
                coalescerVars, orderVars, metricsVars, lifecycleVars,
                supportVars>>
InitPolicy ==
    /\ GuardIdle /\ RiskIdle /\ DedupeInit /\ IntakeInit /\ PipelineIdle
    /\ CoalescerIdle /\ PolicyInit(ApplySizings, ApplyCalls) /\ OrderIdle
    /\ MetricsInit /\ LifecycleInit /\ SupportIdle
NextPolicy == PolicyApply /\ UNCHANGED policyRest
SpecPolicy == InitPolicy /\ [][NextPolicy]_vars

orderRest == <<guardVars, riskVars, dedupeVars, intakeVars, pipelineVars,
               coalescerVars, policyVars, metricsVars, lifecycleVars,
               supportVars>>
InitOrder ==
    /\ GuardIdle /\ RiskIdle /\ DedupeInit /\ IntakeInit /\ PipelineIdle
    /\ CoalescerIdle /\ PolicyIdle /\ OrderInit(0..MaxRetries) /\ MetricsInit
    /\ LifecycleInit /\ SupportIdle
NextOrder ==
    \/ \E dry_run \in BOOLEAN, intent \in SubmittedIntents :
          SubmitMarketableLimit(dry_run, intent) /\ UNCHANGED orderRest
    \/ \E outcome \in PostOutcomes : PostAttempt(outcome) /\ UNCHANGED orderRest
SpecOrder == InitOrder /\ [][NextOrder]_vars

metricsRest == <<guardVars, riskVars, dedupeVars, intakeVars, pipelineVars,
                 coalescerVars, policyVars, orderVars, lifecycleVars,
                 supportVars>>
InitMetrics ==
    /\ GuardIdle /\ RiskIdle /\ DedupeInit /\ IntakeInit /\ PipelineIdle
    /\ CoalescerIdle /\ PolicyIdle /\ OrderIdle /\ MetricsInit /\ LifecycleInit
    /\ SupportIdle
NextMetrics ==
    \/ \E key \in BucketKeys, ts_ms \in ReceiveTimes :
          MetricsReceive(key, ts_ms) /\ UNCHANGED metricsRest
    \/ \E key \in BucketKeys, correlation_id \in CorrelationIds,
           outcome \in FlushOutcomes, ts_ms \in SubmitTimes,
           latency \in AckLatencies :
          MetricsFlush(key, correlation_id, outcome, ts_ms, latency)
            /\ UNCHANGED metricsRest
    \/ EmitSnapshot /\ UNCHANGED metricsRest
SpecMetrics == InitMetrics /\ [][NextMetrics]_vars

lifecycleRest == <<guardVars, riskVars, dedupeVars, intakeVars, pipelineVars,
                   coalescerVars, policyVars, orderVars, metricsVars,
                   supportVars>>
InitLifecycle ==
    /\ GuardIdle /\ RiskIdle /\ DedupeInit /\ IntakeInit /\ PipelineIdle
    /\ CoalescerIdle /\ PolicyIdle /\ OrderIdle /\ MetricsInit /\ LifecycleInit
    /\ SupportIdle
NextLifecycle ==
    \/ \E c \in ClientOrderIds, accepted \in BOOLEAN :
          Register(c, accepted) /\ UNCHANGED lifecycleRest
    \/ \E c \in ClientOrderIds, a \in FillAmounts :
          MarkPartialFill(c, a) /\ UNCHANGED lifecycleRest
    \/ \E c \in ClientOrderIds, a \in FillAmounts :
          MarkFilled(c, a) /\ UNCHANGED lifecycleRest
SpecLifecycle == InitLifecycle /\ [][NextLifecycle]_vars

pnlRest == <<guardVars, riskVars, dedupeVars, intakeVars, pipelineVars,
             coalescerVars, policyVars, orderVars, metricsVars, lifecycleVars,
             runVars, lateVars>>
InitPnl ==
    /\ GuardIdle /\ RiskIdle /\ DedupeInit /\ IntakeInit /\ PipelineIdle
    /\ CoalescerIdle /\ PolicyIdle /\ OrderIdle /\ MetricsInit /\ LifecycleInit
    /\ PnlInit({10}) /\ RunInit /\ LateIdle
NextPnl ==
    \/ \E key \in MarkedKeys, price \in MarkPrices :
          SetMark(key, price) /\ UNCHANGED pnlRest
    \/ \E key \in PnlKeys, side \in Sides, qty \in FillQtys, price \in FillPrices :
          ApplyFill(key, side, qty, price) /\ UNCHANGED pnlRest
    \/ \E market_id \in PnlMarkets, winning_outcome \in WinningOutcomes,
           prices \in SettlePriceMaps :
          SettleMarket(market_id, winning_outcome, prices) /\ UNCHANGED pnlRest
SpecPnl == InitPnl /\ [][NextPnl]_vars

runRest == <<guardVars, riskVars, dedupeVars, intakeVars, pipelineVars,
             coalescerVars, policyVars, orderVars, metricsVars, lifecycleVars,
             pnlVars, lateVars>>
InitRun ==
    /\ GuardIdle /\ RiskIdle /\ DedupeInit /\ IntakeInit /\ PipelineIdle
    /\ CoalescerIdle /\ PolicyIdle /\ OrderIdle /\ MetricsInit /\ LifecycleInit
    /\ PnlIdle /\ RunInit /\ LateIdle
NextRun ==
    \/ Signal /\ UNCHANGED runRest
    \/ LoopTest /\ UNCHANGED runRest
    \/ LoopReceive /\ UNCHANGED runRest
    \/ LoopDueKeys /\ UNCHANGED runRest
    \/ LoopFlushBucket /\ UNCHANGED runRest
    \/ LoopSnapshotCheck /\ UNCHANGED runRest
    \/ FinalSnapshot /\ UNCHANGED runRest
    \/ PollerCycle /\ UNCHANGED runRest
    \/ WsCycle /\ UNCHANGED runRest
SpecRun == InitRun /\ [][NextRun]_vars
\* The main thread is a running thread: it takes its next step.
SpecRunLive == SpecRun /\ WF_vars(MainStep /\ UNCHANGED runRest)

backoffRest == <<earlyVars, backoffOtherVars>>
InitBackoff == EarlyIdle /\ BackoffInit /\ backoffOtherIdle
NextBackoff ==
    \/ WsLoopTest /\ UNCHANGED backoffRest
    \/ WsConnectFails /\ UNCHANGED backoffRest
    \/ WsConnectOk /\ UNCHANGED backoffRest
    \/ WsConnectionLost /\ UNCHANGED backoffRest
    \/ WsConnectReturns /\ UNCHANGED backoffRest
    \/ WsWake /\ UNCHANGED backoffRest
    \/ WsStop /\ UNCHANGED backoffRest
SpecBackoff == InitBackoff /\ [][NextBackoff]_vars

threadRest == <<earlyVars, threadsOtherVars>>
InitThreads == EarlyIdle /\ ThreadsInit /\ threadsOtherIdle
NextThreads ==
    \/ PollerHandsEvent /\ UNCHANGED threadRest
    \/ WsHandsEvent /\ UNCHANGED threadRest
    \/ \E t \in Producers : WarmLookup(t) /\ UNCHANGED threadRest
    \/ \E t \in Producers : WarmStore(t) /\ UNCHANGED threadRest
    \/ \E t \in Producers : EnqueuePut(t) /\ UNCHANGED threadRest
    \/ PollerSetsCheckpoint /\ UNCHANGED threadRest
    \/ MainReceives /\ UNCHANGED threadRest
    \/ MainFlushes /\ UNCHANGED threadRest
    \/ MainSnapshots /\ UNCHANGED threadRest
    \/ MainCacheLookup /\ UNCHANGED threadRest
    \/ MainCacheStore /\ UNCHANGED threadRest
    \/ \E key \in CacheKeys : CacheExpires(key) /\ UNCHANGED threadRest
SpecThreads == InitThreads /\ [][NextThreads]_vars

sdkRest == <<earlyVars, sdkOtherVars>>
InitSdk == EarlyIdle /\ SdkInit /\ sdkOtherIdle
NextSdk ==
    \/ \E token_found, configured \in BOOLEAN :
         SdkSubmit(token_found, configured) /\ UNCHANGED sdkRest
    \/ \E answer \in SdkAnswers : SdkPost(answer) /\ UNCHANGED sdkRest
    \/ \E ok \in BOOLEAN : SdkRefresh(ok) /\ UNCHANGED sdkRest
    \/ \E answer \in SdkAnswers : SdkRetryPost(answer) /\ UNCHANGED sdkRest
SpecSdk == InitSdk /\ [][NextSdk]_vars

daysRest == <<guardVars, dedupeVars, intakeVars, pipelineVars, coalescerVars,
              policyVars, orderVars, metricsVars, lifecycleVars, pnlVars, runVars,
              daysOtherVars>>
InitRiskDays ==
    /\ GuardIdle /\ RiskInit(1..MaxCap) /\ DedupeInit /\ IntakeInit /\ PipelineIdle
    /\ CoalescerIdle /\ PolicyIdle /\ OrderIdle /\ MetricsInit /\ LifecycleInit
    /\ PnlIdle /\ RunInit /\ DaysInit /\ daysOtherIdle
NextRiskDays ==
    \/ \E i \in RiskIntents : CheckAndApplyToday(i) /\ UNCHANGED daysRest
    \/ Midnight /\ UNCHANGED daysRest
SpecRiskDays == InitRiskDays /\ [][NextRiskDays]_vars

cyclesRest == <<riskVars, dedupeVars, intakeVars, pipelineVars, coalescerVars,
                policyVars, orderVars, lifecycleVars, pnlVars, runVars,
                cyclesOtherVars>>
InitCycles ==
    /\ GuardInit(1..MaxRecovery) /\ RiskIdle /\ DedupeInit /\ IntakeInit
    /\ PipelineInit({TRUE}, {FALSE}, PolicySizings)
    /\ CoalescerIdle /\ PolicyIdle /\ OrderIdle /\ MetricsInit /\ LifecycleInit
    /\ PnlIdle /\ RunInit /\ CyclesInit /\ cyclesOtherIdle
\* The telemetry does not depend on the key of a bucket: one key.
NextCycles ==
    \/ \E key \in {"k1"}, ts_ms \in ReceiveTimes :
          ReceiveEvent(key, ts_ms) /\ UNCHANGED cyclesRest
    \/ \E key \in {"k1"}, correlation_id \in CorrelationIds,
           outcome \in FlushOutcomes, ts_ms \in SubmitTimes,
           latency \in AckLatencies :
          FlushBucket(key, correlation_id, outcome, ts_ms, latency)
            /\ UNCHANGED cyclesRest
    \/ EmitSnapshotAndEvaluate /\ UNCHANGED cyclesRest
SpecCycles == InitCycles /\ [][NextCycles]_vars

tasksRest == <<earlyVars, tasksOtherVars>>
InitTasks == EarlyIdle /\ TasksInit /\ tasksOtherIdle
NextTasks ==
    \/ \E n \in 1..MaxTaskPushes, key \in TaskKeys :
          PushCall(n, key) /\ UNCHANGED tasksRest
    \/ \E n \in 1..MaxTaskPushes : PushAcquire(n) /\ UNCHANGED tasksRest
    \/ \E n \in 1..MaxTaskPushes : PushAppend(n) /\ UNCHANGED tasksRest
    \/ \E n \in 1..MaxTaskPushes : FlushWake(n) /\ UNCHANGED tasksRest
    \/ \E n \in 1..MaxTaskPushes : FlushAcquire(n) /\ UNCHANGED tasksRest
    \/ \E n \in 1..MaxTaskPushes : FlushPop(n) /\ UNCHANGED tasksRest
    \/ \E n \in 1..MaxTaskPushes : FlushPut(n) /\ UNCHANGED tasksRest
    \/ \E n \in 1..MaxTaskPushes : FlushUnregister(n) /\ UNCHANGED tasksRest
SpecTasks ==
    InitTasks /\ [][NextTasks]_vars /\ WF_vars(EventLoopStep /\ UNCHANGED tasksRest)

(***************************************************************************)
(* Claims                                                                  *)
(***************************************************************************)
\* The reading of evaluate call i, and the switch before that call.
BreachesError(r) == r.error_rate > thresholds.max_error_rate
BreachesLatency(r) == r.p95_latency_ms > thresholds.max_p95_latency_ms
Healthy(r) ==
    /\ r.error_rate <= thresholds.recover_max_error_rate
    /\ r.p95_latency_ms <= thresholds.recover_max_p95_latency_ms
ActiveBefore(i) == i > 1 /\ evalTrace[i - 1].active

\* C5: an evaluate call whose error_rate is above max_error_rate leaves the
\* switch active with reason auto_error_rate_threshold, whatever the latency and
\* whatever the switch was before; otherwise a p95 above max_p95_latency_ms
\* leaves it active with reason auto_latency_threshold; both reset the streak.
C5_ActivatesWithinOneSnapshot ==
    \A i \in 1..Len(evalTrace) :
        LET r == evalTrace[i]
        IN /\ BreachesError(r) =>
                r.active /\ r.reason = "auto_error_rate_threshold" /\ r.streak = 0
           /\ (~BreachesError(r) /\ BreachesLatency(r)) =>
                r.active /\ r.reason = "auto_latency_threshold" /\ r.streak = 0

\* A switch active for the latency reason, then a reading that breaches both
\* thresholds: the reason becomes the error-rate one.
C5_Witness ==
    \E i \in 2..Len(evalTrace) :
        /\ evalTrace[i - 1].active
        /\ evalTrace[i - 1].reason = "auto_latency_threshold"
        /\ BreachesError(evalTrace[i]) /\ BreachesLatency(evalTrace[i])
        /\ evalTrace[i].reason = "auto_error_rate_threshold"

\* The number of back-to-back healthy readings ending with call i, each made
\* while the switch was active.
RECURSIVE HealthyRun(_)
HealthyRun(i) ==
    IF i >= 1 /\ ActiveBefore(i) /\ Healthy(evalTrace[i])
    THEN 1 + HealthyRun(i - 1)
    ELSE 0

\* C6: an evaluate call made while the switch is active deactivates it exactly
\* when it completes recovery_consecutive_snapshots back-to-back healthy
\* readings; a reading under the activation thresholds that is not healthy
\* leaves the switch active and the streak at 0.
C6_RecoversAfterExactlyNHealthy ==
    \A i \in 1..Len(evalTrace) :
        LET r == evalTrace[i]
        IN ActiveBefore(i) =>
            /\ ~r.active <=>
                 HealthyRun(i) = thresholds.recovery_consecutive_snapshots
            /\ HealthyRun(i) <= thresholds.recovery_consecutive_snapshots
            /\ (~BreachesError(r) /\ ~BreachesLatency(r) /\ ~Healthy(r)) =>
                 r.active /\ r.streak = 0

\* Healthy, then under the activation threshold but not healthy, then two
\* healthy readings in a row, which deactivate the switch.
C6_Witness ==
    \E i \in 4..Len(evalTrace) :
        /\ thresholds.recovery_consecutive_snapshots = 2
        /\ ActiveBefore(i - 3) /\ Healthy(evalTrace[i - 3])
        /\ ~Healthy(evalTrace[i - 2]) /\ evalTrace[i - 2].active
        /\ Healthy(evalTrace[i - 1]) /\ evalTrace[i - 1].active
        /\ Healthy(evalTrace[i]) /\ ~evalTrace[i].active

\* The three caps hold of every counter.
RiskCapsHold ==
    /\ \A w \in WindowKeys :
         window_notional[w] <= sizing.max_total_notional_per_15m_window_usd
    /\ \A m \in MarketIds :
         market_notional[m] <= sizing.max_notional_per_market_usd
    /\ daily_notional <= sizing.max_daily_traded_volume_usd

RiskNoDecrease ==
    /\ \A w \in WindowKeys : window_notional'[w] >= window_notional[w]
    /\ \A m \in MarketIds : market_notional'[m] >= market_notional[m]
    /\ daily_notional' >= daily_notional

\* C7: after any sequence of check_and_apply calls with positive targets every
\* counter is within its cap, and no call lowers a counter.
C7_CountersWithinCapsAndMonotone ==
    RiskCapsHold /\ [][RiskCapsHold' /\ RiskNoDecrease]_vars

\* The daily counter is at its cap and the last call was blocked for it.
C7_Witness ==
    /\ riskSnap.blocked_reason = "daily_cap_exceeded"
    /\ daily_notional = sizing.max_daily_traded_volume_usd
    /\ daily_notional > 0

\* The projections of the call that led to the next state, from the counters
\* before it.
WindowExceeded ==
    window_notional[WindowKey(riskIntent'.window_id)]
        + riskIntent'.target_notional_usd
      > sizing.max_total_notional_per_15m_window_usd
MarketExceeded ==
    market_notional[riskIntent'.market_id] + riskIntent'.target_notional_usd
      > sizing.max_notional_per_market_usd
DailyExceeded ==
    daily_notional + riskIntent'.target_notional_usd
      > sizing.max_daily_traded_volume_usd

\* C8: check_and_apply reports the first cap exceeded in the order window,
\* market, daily.
C8_FirstExceededCapReported ==
    [][/\ (riskSnap'.blocked_reason = "window_cap_exceeded") <=> WindowExceeded
       /\ (riskSnap'.blocked_reason = "market_cap_exceeded") <=>
            (~WindowExceeded /\ MarketExceeded)
       /\ (riskSnap'.blocked_reason = "daily_cap_exceeded") <=>
            (~WindowExceeded /\ ~MarketExceeded /\ DailyExceeded)
       /\ (riskSnap'.blocked_reason = "") <=>
            (~WindowExceeded /\ ~MarketExceeded /\ ~DailyExceeded)
       /\ riskSnap'.blocked <=> (riskSnap'.blocked_reason # "")]_vars

\* The last intent exceeded the window cap and the market cap (a blocked call
\* leaves the counters as they were) and was blocked for the window cap.
C8_Witness ==
    /\ riskSnap.blocked_reason = "window_cap_exceeded"
    /\ window_notional[WindowKey(riskIntent.window_id)]
           + riskIntent.target_notional_usd
         > sizing.max_total_notional_per_15m_window_usd
    /\ market_notional[riskIntent.market_id] + riskIntent.target_notional_usd
         > sizing.max_notional_per_market_usd

\* ---- dedupe store ----
SameKeyBefore(i) ==
    {j \in 1..(i - 1) : markLog[j].dedupe_key = markLog[i].dedupe_key}

\* C1: over any sequence of mark_seen calls that build the same dedupe key,
\* made through the first store instance or one reopened on the same
\* database, the call that returns true is exactly the first one, every
\* later one returns false, and already_seen(k) is true once a call returned.
C1_ExactlyFirstMarkSeenTrue ==
    \A i \in 1..Len(markLog) :
        markLog[i].returned =>
            /\ markLog[i].result = (SameKeyBefore(i) = {})
            /\ already_seen(markLog[i].dedupe_key)

\* A key marked through the first instance is refused through a reopened one.
C1_Witness ==
    \E i, j \in 1..Len(markLog) :
        /\ i < j
        /\ markLog[i].dedupe_key = markLog[j].dedupe_key
        /\ markLog[i].returned /\ markLog[i].result /\ ~markLog[i].reopened
        /\ markLog[j].returned /\ ~markLog[j].result /\ markLog[j].reopened
        /\ already_seen(markLog[j].dedupe_key)

\* C2: two producers inside mark_seen at the same time with the same dedupe
\* key: the INSERT-to-commit section is held by one caller at a time, at most
\* one INSERT for a key takes effect, and once any of the calls has returned
\* one of them has returned true.
C2_ConcurrentMarkSeenAtomic ==
    /\ Cardinality({p \in Callers : mark_call[p].pc = "executed"}) <= 1
    /\ \A k \in DedupeKeys :
           Cardinality({i \in 1..Len(markLog) :
               markLog[i].dedupe_key = k /\ markLog[i].rowcount = 1}) <= 1
    /\ \A i \in 1..Len(markLog) :
           markLog[i].returned =>
               \E j \in 1..i :
                   /\ markLog[j].dedupe_key = markLog[i].dedupe_key
                   /\ markLog[j].returned /\ markLog[j].result

\* Both producers were inside mark_seen for the key; one got true, the other
\* false.
C2_Witness ==
    \E i \in 1..(Len(markLog) - 1) :
        /\ markLog[i].concurrent
        /\ markLog[i + 1].dedupe_key = markLog[i].dedupe_key
        /\ markLog[i].returned /\ markLog[i].result
        /\ markLog[i + 1].returned /\ ~markLog[i + 1].result

\* ---- producers ----
\* C3: a fill seen by the activity poller and by the trade-socket watcher is
\* put on the ingress queue at most once.
C3_FillEnqueuedAtMostOnce ==
    \A i, j \in 1..Len(enqueueLog) :
        enqueueLog[i].event_id = enqueueLog[j].event_id => i = j

\* ---- orchestrator loop ----
\* The bucket the loop is about to process, and the sum of one side's notionals.
DueEvents == bucket_of(buckets, Head(loop.due_keys)).events
RECURSIVE SideSum(_, _)
SideSum(events, side) ==
    IF events = <<>> THEN 0
    ELSE (IF Head(events).side = side THEN Head(events).notional_usd ELSE 0)
           + SideSum(Tail(events), side)
RiskCountersUnchanged ==
    UNCHANGED <<window_notional, market_notional, daily_notional>>

\* C4: processing a bucket whose net is not zero while the kill switch is
\* active submits no order, calls neither the policy nor the risk tracker,
\* leaves the risk counters alone, and writes one audit row and one shadow row
\* whose blocked_reason is the reason of the kill switch.
C4_KillSwitchBlocksBucket ==
    [][(/\ loop.pc = "flush"
        /\ kill_switch.active
        /\ SideSum(DueEvents, "BUY") # SideSum(DueEvents, "SELL"))
       => /\ flushed'.orders = <<>>
          /\ flushed'.policy_calls = 0 /\ flushed'.risk_calls = 0
          /\ RiskCountersUnchanged
          /\ Len(flushed'.audit) = 1 /\ Len(flushed'.shadow) = 1
          /\ flushed'.audit[1].blocked_reason = kill_switch.reason
          /\ ~flushed'.audit[1].submitted /\ ~flushed'.audit[1].executed
          /\ flushed'.shadow[1].blocked_reason = kill_switch.reason
          /\ ~flushed'.shadow[1].executed]_vars

\* A bucket the policy and the caps would let through, blocked by a switch the
\* guard activated.
C4_Witness ==
    /\ loop.pc \in {"flush", "snapshot"}
    /\ kill_switch.active /\ kill_switch.reason = "auto_error_rate_threshold"
    /\ flushed.emitted
    /\ flushed.intent.target_notional_usd >= policy_sizing.min_order_notional_usd
    /\ flushed.intent.target_notional_usd
         <= sizing.max_total_notional_per_15m_window_usd
    /\ flushed.orders = <<>>
    /\ Len(flushed.audit) = 1
    /\ flushed.audit[1].blocked_reason = "auto_error_rate_threshold"

\* C9: a bucket whose BUY notionals and SELL notionals sum to the same amount
\* gives no intent, from main._coalesced_intent and from a netting
\* IntentNetCoalescer alike, and the loop then calls neither the policy nor
\* the risk tracker, submits no order and writes no audit or shadow row.
C9_EqualSidesEmitNothing ==
    [][(/\ loop.pc = "flush"
        /\ SideSum(DueEvents, "BUY") = SideSum(DueEvents, "SELL"))
       => /\ ~flushed'.emitted
          /\ ~to_intent(CoalescerConfig(TRUE), DueEvents, now_ms).emitted
          /\ flushed'.policy_calls = 0 /\ flushed'.risk_calls = 0
          /\ RiskCountersUnchanged
          /\ flushed'.orders = <<>>
          /\ flushed'.audit = <<>> /\ flushed'.shadow = <<>>]_vars

\* A BUY and a SELL of the same positive notional were flushed together.
C9_Witness ==
    /\ loop.pc \in {"flush", "snapshot"}
    /\ flushed.key # "" /\ ~flushed.emitted
    /\ \E i, j \in 1..Len(flushed.events) :
           /\ flushed.events[i].side = "BUY" /\ flushed.events[j].side = "SELL"
           /\ flushed.events[i].notional_usd > 0
           /\ flushed.events[i].notional_usd = flushed.events[j].notional_usd
    /\ flushed.audit = <<>> /\ flushed.orders = <<>>

\* ---- IntentNetCoalescer ----
\* C10: an intent the coalescer emits names its events and has a positive
\* target; when netting its side is BUY iff the signed net is positive and
\* its target is the absolute net; without netting its target is the sum of
\* the notionals and its side the first event's.
C10_EmittedIntentWellFormed ==
    last_flush.emitted =>
        LET intent == last_flush.intent
            ordered == sorted_by_executed_ts(last_flush.events)
            net == SideSum(ordered, "BUY") - SideSum(ordered, "SELL")
        IN /\ intent.coalesced_event_ids # <<>>
           /\ intent.target_notional_usd > 0
           /\ coalescer_cfg.net_opposite_trades =>
                /\ (intent.side = "BUY") = (net > 0)
                /\ intent.target_notional_usd = Abs(net)
           /\ ~coalescer_cfg.net_opposite_trades =>
                /\ intent.target_notional_usd
                     = SideSum(ordered, "BUY") + SideSum(ordered, "SELL")
                /\ intent.side = ordered[1].side

\* The arrival orders of the events of a bucket.
ArrivalOrders(events) ==
    {[i \in 1..Len(events) |-> events[p[i]]] :
        p \in {q \in [1..Len(events) -> 1..Len(events)] :
                 \A i, j \in 1..Len(events) : q[i] = q[j] => i = j}}
ExecutedTsOf(events, event_id) ==
    (CHOOSE e \in {events[i] : i \in 1..Len(events)} : e.event_id = event_id)
        .executed_ts
InExecutedTsOrder(events, ids) ==
    /\ Len(ids) = Len(events)
    /\ {ids[i] : i \in 1..Len(ids)} = {events[i].event_id : i \in 1..Len(events)}
    /\ \A i \in 1..(Len(ids) - 1) :
           ExecutedTsOf(events, ids[i]) <= ExecutedTsOf(events, ids[i + 1])
SameDecision(a, b) ==
    /\ a.emitted = b.emitted
    /\ a.intent.side = b.intent.side
    /\ a.intent.target_notional_usd = b.intent.target_notional_usd
    /\ a.intent.window_id = b.intent.window_id

\* C11: for the events of a flushed bucket taken in any arrival order,
\* IntentNetCoalescer._to_intent and main._coalesced_intent list the event ids
\* in executed_ts order and give the same side, target and window_id as for
\* the order in which the events did arrive.
C11_IntentIndependentOfArrivalOrder ==
    last_flush.events # <<>> =>
        \A p \in ArrivalOrders(last_flush.events) :
            LET c == to_intent(coalescer_cfg, p, now_ms)
                m == coalesced_intent(p, coalescer_cfg.max_slippage_bps)
            IN /\ SameDecision(c, [emitted |-> last_flush.emitted,
                                   intent |-> last_flush.intent])
               /\ SameDecision(m, coalesced_intent(last_flush.events,
                                      coalescer_cfg.max_slippage_bps))
               /\ c.emitted =>
                    InExecutedTsOrder(p, c.intent.coalesced_event_ids)
               /\ m.emitted =>
                    InExecutedTsOrder(p, m.intent.coalesced_event_ids)

\* The later fill arrived first and the emitted intent lists it second.
C11_Witness ==
    /\ last_flush.emitted
    /\ Len(last_flush.events) = 2
    /\ last_flush.events[1].executed_ts > last_flush.events[2].executed_ts
    /\ last_flush.intent.coalesced_event_ids
         = <<last_flush.events[2].event_id, last_flush.events[1].event_id>>

\* The last apply call: its last source event, whether that event is stale,
\* whether its window is within the near-expiry cutoff, and the size the
\* sizing rules give the intent.
LastSourceEvent == policy_call.source_events[Len(policy_call.source_events)]
CallStale ==
    policy_call.now - LastSourceEvent.executed_ts
        > policy_cfg.max_source_staleness_ms
CallNearExpiry ==
    /\ LastSourceEvent.window # NoWindow
    /\ LastSourceEvent.window.end_s - (policy_call.now \div 1000)
         <= policy_cfg.execution.near_expiry_cutoff_seconds
CallSized == size_notional(policy_cfg.sizing, policy_call.intent.target_notional_usd)
SourceStaleResult(r) == r.blocked /\ r.intent = NoIntent /\ r.blocked_reason = "source_stale"
IntentResult(r) == ~r.blocked /\ r.intent # NoIntent /\ r.blocked_reason = ""

C13_NearExpiryExactlyOnLastEvent ==
    policy_call.called =>
        LET r == policy_call.unguarded
        IN /\ \A i \in 1..Len(policy_call.source_events) :
                policy_call.source_events[i].executed_ts <= LastSourceEvent.executed_ts
           /\ (r.blocked /\ r.blocked_reason = "near_expiry_cutoff") <=> CallNearExpiry
           /\ LastSourceEvent.window = NoWindow => r.blocked_reason # "near_expiry_cutoff"
           /\ (CallNearExpiry /\ CallSized < policy_cfg.sizing.min_order_notional_usd)
                => r.blocked_reason = "near_expiry_cutoff"
C13_Witness ==
    /\ policy_call.called /\ Len(policy_call.source_events) = 2
    /\ policy_call.source_events[1].window = NoWindow
    /\ CallNearExpiry
    /\ CallSized < policy_cfg.sizing.min_order_notional_usd
    /\ policy_call.unguarded.blocked
    /\ policy_call.unguarded.blocked_reason = "near_expiry_cutoff"

\* The size the rules of the policy give the intent of the last apply call:
\* the fixed amount, or the source amount times the multiplier, and the
\* per-order cap on top in every mode.
SizedByMode ==
    LET sz == policy_cfg.sizing
        scaled == (policy_call.intent.target_notional_usd * sz.size_multiplier) \div 100
        uncapped == IF sz.mode = "fixed" THEN sz.fixed_order_notional_usd ELSE scaled
    IN IF uncapped > sz.max_notional_per_order_usd
       THEN sz.max_notional_per_order_usd ELSE uncapped

\* C14: in the modes fixed, proportional and capped_proportional every intent
\* apply returns has min_order_notional_usd <= target_notional_usd <=
\* max_notional_per_order_usd, and an intent sized below the minimum is not
\* returned: the result is blocked with below_min_order_notional.
C14_ReturnedTargetWithinMinAndCap ==
    policy_call.called =>
        LET sz == policy_cfg.sizing
            r == policy_call.unguarded
        IN /\ sz.mode \in PolicyModes
           /\ ~r.blocked =>
                /\ r.intent.target_notional_usd = SizedByMode
                /\ sz.min_order_notional_usd <= r.intent.target_notional_usd
                /\ r.intent.target_notional_usd <= sz.max_notional_per_order_usd
           /\ policy_call.result.blocked_reason = "" =>
                /\ sz.min_order_notional_usd <= policy_call.result.intent.target_notional_usd
                /\ policy_call.result.intent.target_notional_usd <= sz.max_notional_per_order_usd
           /\ (~CallNearExpiry /\ SizedByMode < sz.min_order_notional_usd) =>
                /\ r.blocked /\ r.intent = NoIntent
                /\ r.blocked_reason = "below_min_order_notional"
C14_Witness ==
    /\ policy_call.called /\ policy_cfg.sizing.mode = "proportional"
    /\ ~policy_call.unguarded.blocked
    /\ (policy_call.intent.target_notional_usd * policy_cfg.sizing.size_multiplier) \div 100
         > policy_cfg.sizing.max_notional_per_order_usd
    /\ policy_call.unguarded.intent.target_notional_usd
         = policy_cfg.sizing.max_notional_per_order_usd
C14_WitnessBelowMin ==
    /\ policy_call.called /\ policy_cfg.sizing.mode = "fixed"
    /\ policy_call.unguarded.blocked_reason = "below_min_order_notional"

\* The submit_marketable_limit calls the state remembers, and the fields of
\* an intent that go into the digest.
SubmitCalls == {c \in {submit_call, prev_submit} : c.pc # "idle"}
DigestedFields(intent) ==
    <<intent.market_id, intent.outcome, intent.side, intent.window_id,
      intent.coalesced_event_ids, intent.target_notional_usd>>

C16_BoundedRetriesThenRejected ==
    \A c \in SubmitCalls :
        LET n == Len(c.posts)
            AllFailed == \A k \in 1..n : c.posts[k].answer = "error"
        IN /\ c.dry_run => n = 0
           /\ n <= order_cfg.max_retries
           /\ c.pc = "post" => (n < order_cfg.max_retries /\ c.attempt = n + 1)
           /\ \A k \in 1..(n - 1) : c.posts[k].answer = "error"
           /\ (n > 0 /\ c.posts[n].answer = "ok") =>
                /\ c.pc = "returned" /\ c.submission.accepted
                /\ c.submission.status = "acknowledged"
           /\ (~c.dry_run /\ c.pc = "returned" /\ c.submission.accepted) =>
                (n > 0 /\ c.posts[n].answer = "ok")
           /\ (~c.dry_run /\ AllFailed /\ n >= order_cfg.max_retries) =>
                /\ c.pc = "returned" /\ ~c.submission.accepted
                /\ c.submission.status = "rejected"
           /\ c.pc = "raised" => (n > 0 /\ c.posts[n].answer = "invalid")
C16_Witness ==
    /\ ~submit_call.dry_run /\ submit_call.pc = "returned"
    /\ order_cfg.max_retries >= 3
    /\ Len(submit_call.posts) = order_cfg.max_retries
    /\ \A k \in 1..Len(submit_call.posts) : submit_call.posts[k].answer = "error"
    /\ ~submit_call.submission.accepted /\ submit_call.submission.status = "rejected"
    /\ prev_submit.pc = "returned" /\ ~prev_submit.dry_run
    /\ Len(prev_submit.posts) = 2 /\ prev_submit.submission.accepted

\* Fractions as numbers.
SameRate(a, b) == a.num * b.den = b.num * a.den

LogAtLastEmit == SubSeq(submit_log, 1, window_mark)
CopyDelaysOf(log) == [i \in 1..Len(log) |-> log[i].copy_delay]
RejectRateOf(log) ==
    LET counted == {i \in 1..Len(log) : log[i].error_code # "min_size"}
        rejected == {i \in counted : ~log[i].accepted}
    IN reject_rate(Cardinality(rejected), Cardinality(counted))

\* C19: snapshot_window() reports the records made since the previous
\* snapshot_window() and starts a new interval, so a call with no record
\* since the previous one returns reject_rate 0.0 and no copy-delay summary;
\* snapshot() goes on reporting every record since the collector was made.
C19_WindowSnapshotResets ==
    last_emit.called =>
        /\ last_emit.window.copy_delay_ms = summary(CopyDelaysOf(last_emit.since))
        /\ SameRate(last_emit.window.reject_rate, RejectRateOf(last_emit.since))
        /\ last_emit.since = <<>> =>
              /\ last_emit.window.reject_rate.num = 0
              /\ last_emit.window.copy_delay_ms.empty
        /\ last_emit.snapshot.copy_delay_ms = summary(CopyDelaysOf(LogAtLastEmit))
        /\ SameRate(last_emit.snapshot.reject_rate, RejectRateOf(LogAtLastEmit))
        /\ last_emit.snapshot_after = last_emit.snapshot
C19_Witness ==
    /\ last_emit.called /\ last_emit.previous > 0 /\ last_emit.since = <<>>
    /\ last_emit.window.copy_delay_ms.empty
    /\ last_emit.window.reject_rate.num = 0
    /\ ~last_emit.snapshot.copy_delay_ms.empty
    /\ last_emit.snapshot.reject_rate.num > 0

\* C20: as main drives the collector, source_fills >= destination_orders at
\* all times; coalescing_efficiency is at least 1.0 when destination_orders
\* is positive and None when it is 0.
C20_FillsAtLeastOrders ==
    LET e == snapshot(metrics).coalescing_efficiency
    IN /\ metrics.source_fills >= metrics.destination_orders
       /\ snapshot(metrics).source_fills >= snapshot(metrics).destination_orders
       /\ metrics.destination_orders > 0 => (~e.none /\ e.hundredths >= 100)
       /\ metrics.destination_orders = 0 => e.none
C20_Witness ==
    /\ metrics.destination_orders = 1 /\ metrics.source_fills = 2
    /\ \A k \in BucketKeys : pending[k] = <<>>
    /\ snapshot(metrics).coalescing_efficiency.hundredths = 200

\* The status changes of the order lifecycle: created to acknowledged or
\* rejected, acknowledged to partial_fill or filled, partial_fill to
\* partial_fill or filled.
ForwardTransitions ==
    {<<"created", "acknowledged">>, <<"created", "rejected">>,
     <<"acknowledged", "partial_fill">>, <<"acknowledged", "filled">>,
     <<"partial_fill", "partial_fill">>, <<"partial_fill", "filled">>}

\* C18: the store moves an order forward only: created to acknowledged or
\* rejected, acknowledged through any number of partial_fill to filled;
\* rejected and filled are terminal and no status change goes backwards.
C18_OnlyForwardTransitions ==
    last_transition # NoTransition =>
        <<last_transition.from, last_transition.to>> \in ForwardTransitions

(***************************************************************************)
(* PnL tracker                                                             *)
(***************************************************************************)
\* A step that is a settle_market call.
SettleStep == ~last_settle.called /\ last_settle'.called
\* The positions of a market that are open in tracker t.
OpenKeys(t, market_id) ==
    {k \in PnlKeys : market_of(k) = market_id /\ t.positions[k].qty # 0}
\* The settlement price the specification names: the explicit price of the
\* outcome, else 1 dollar for the winner, else 0.
StatedSettlePx(k, call) ==
    IF call.outcome_settle_prices[outcome_of(k)] # -1
    THEN call.outcome_settle_prices[outcome_of(k)]
    ELSE IF outcome_of(k) = call.winning_outcome THEN 10 ELSE 0
\* An open position for which the call carries a price or a winner.
Priced(k, call) ==
    call.outcome_settle_prices[outcome_of(k)] # -1 \/ call.winning_outcome # None
\* (settle_px - avg_price) * qty of one position, 0 for a key outside keys.
SettleGain(t, k, keys, call) ==
    IF k \in keys
    THEN FracTimes(FracSub(FracInt(StatedSettlePx(k, call)), t.positions[k].avg_price),
                   t.positions[k].qty)
    ELSE FracInt(0)
SettleGains(t, keys, call) ==
    FracAdd(FracAdd(SettleGain(t, pnl_key("m1", "Up"), keys, call),
                    SettleGain(t, pnl_key("m1", "Down"), keys, call)),
            SettleGain(t, pnl_key("m2", "Up"), keys, call))
\* What settle_market does to the set keys of positions, between the tracker
\* before the call and the tracker after it.
SettledAsStated(before, after, keys, call) ==
    /\ call.settled = Cardinality(keys)
    /\ after.realized_settled =
          FracAdd(before.realized_settled, SettleGains(before, keys, call))
    /\ \A k \in keys :
          /\ after.positions[k] = Position(0, FracInt(0))
          /\ after.marks[k] = StatedSettlePx(k, call)

\* C21 as stated: settle_market resolves every open position of the market
\* at the explicit price, else 1 for the winner, else 0; adds
\* (settle_px - avg_price) * qty to realized_settled, zeroes qty and
\* avg_price, sets the mark to settle_px, returns the number settled, and
\* leaves the market with no open position and no unrealized amount.
C21_SettleResolvesEveryOpenPosition ==
    [][SettleStep =>
         LET call == last_settle'
             keys == OpenKeys(pnl, call.market_id)
         IN /\ SettledAsStated(pnl, pnl', keys, call)
            /\ OpenKeys(pnl', call.market_id) = {}
            /\ unrealized_of(pnl', {k \in PnlKeys : market_of(k) = call.market_id})
                 = FracInt(0)]_vars

\* C21 amended: settle_market resolves, as stated, every open position of
\* the market for which the call carries an explicit price or a winning
\* outcome; a position with neither stays as it was and is not counted;
\* when every open position of the market has a price, the market ends with
\* no open position and no unrealized amount.
C21_SettleResolvesEveryPricedPosition ==
    [][SettleStep =>
         LET call == last_settle'
             open == OpenKeys(pnl, call.market_id)
             keys == {k \in open : Priced(k, call)}
         IN /\ SettledAsStated(pnl, pnl', keys, call)
            /\ \A k \in open \ keys :
                  /\ pnl'.positions[k] = pnl.positions[k]
                  /\ pnl'.marks[k] = pnl.marks[k]
            /\ keys = open =>
                  /\ OpenKeys(pnl', call.market_id) = {}
                  /\ unrealized_of(pnl', {k \in PnlKeys : market_of(k) = call.market_id})
                       = FracInt(0)]_vars
\* A settlement of two open positions of one market, one at the explicit
\* price and one as the loser, while a marked position was open.
C21_Witness ==
    /\ last_settle.called
    /\ last_settle.settled = 2
    /\ last_settle.winning_outcome = "Up"
    /\ last_settle.outcome_settle_prices["Up"] = 5
    /\ last_settle.before.marks[pnl_key("m1", "Up")] = 7
    /\ pnl.marks[pnl_key("m1", "Up")] = 5
    /\ pnl.marks[pnl_key("m1", "Down")] = 0
    /\ pnl.realized_settled # FracInt(0)
    /\ OpenKeys(pnl, "m1") = {}

\* C22 as stated: with no settlement in between, the qty of a position is
\* the signed sum of its fills, BUY positive and SELL negative.
C22_QtyIsSignedSumOfFills ==
    \A k \in PnlKeys : pnl.positions[k].qty = net_fills[k]

(***************************************************************************)
(* Orchestrator loop and shutdown                                          *)
(***************************************************************************)
\* C23 as stated: no error raised while handling an event or a flushed
\* bucket ends the orchestrator loop, only the stop signal ends it, and the
\* poller and the websocket watcher keep running after their errors.
C23_OnlyStopEndsTheLoop ==
    /\ ~(main_pc = "raised" /\ run_log.raised \in ReceiveStages \cup FlushStages)
    /\ main_pc \in {"final", "exited"} => stop_event
    /\ threads.poller \in {"running", "backoff"}
    /\ threads.ws \in {"running", "backoff"}

\* C24 as stated: once the stop flag is set, the orchestrator eventually
\* emits exactly one snapshot marked final and exits, having taken no event
\* off the queue after the iteration that was in progress.
C24_StopLeadsToOneFinalSnapshot ==
    stop_event ~> (/\ main_pc = "exited"
                   /\ run_log.finals = 1
                   /\ run_log.gets_after_stop <= (IF run_log.stop_pc = "get" THEN 1 ELSE 0))

(***************************************************************************)
(* Risk tracker: what a call changes                                       *)
(***************************************************************************)
\* C25: a blocked check_and_apply leaves the three counters as they were; an
\* admitted one adds the target to the counter of the intent's window, to
\* the counter of its market and to the daily counter, leaves every other
\* window and market as it was, and returns the values after the addition.
C25_BlockedChangesNothingAdmittedAddsTarget ==
    [][LET window_id == WindowKey(riskIntent'.window_id)
           market_id == riskIntent'.market_id
           target == riskIntent'.target_notional_usd
       IN IF riskSnap'.blocked
          THEN /\ window_notional' = window_notional
               /\ market_notional' = market_notional
               /\ daily_notional' = daily_notional
          ELSE /\ window_notional'[window_id] = window_notional[window_id] + target
               /\ \A w \in WindowKeys \ {window_id} :
                     window_notional'[w] = window_notional[w]
               /\ market_notional'[market_id] = market_notional[market_id] + target
               /\ \A m \in MarketIds \ {market_id} :
                     market_notional'[m] = market_notional[m]
               /\ daily_notional' = daily_notional + target
               /\ riskSnap'.total_notional_today_usd = daily_notional'
               /\ riskSnap'.total_notional_current_15m_window_usd
                    = window_notional'[window_id]
               /\ riskSnap'.market_exposure_usd
                    = {<<market_id, market_notional'[market_id]>>}]_vars
\* An admitted call made while another window and another market already had
\* notional, and the admitted intent's own counters had some too.
C25_Witness ==
    /\ ~riskSnap.blocked
    /\ riskIntent.target_notional_usd > 0
    /\ window_notional[WindowKey(riskIntent.window_id)] > riskIntent.target_notional_usd
    /\ \E w \in WindowKeys \ {WindowKey(riskIntent.window_id)} : window_notional[w] > 0
    /\ \E m \in MarketIds \ {riskIntent.market_id} : market_notional[m] > 0

(***************************************************************************)
(* Coalesce keys                                                           *)
(***************************************************************************)
\* The events of a bucket are of one outcome and, without netting, one side.
OneOutcome(events, net_opposite) ==
    \A i, j \in 1..Len(events) :
        /\ events[i].outcome = events[j].outcome
        /\ ~net_opposite => events[i].side = events[j].side

\* C26 as stated: events of the same market and window but of different
\* outcomes never share a bucket or an intent, under the key of
\* IntentNetCoalescer and under the key of main, with and without netting;
\* without netting events of different sides are kept apart too.
C26_OutcomesNeverShareABucket ==
    /\ \A i \in 1..Len(events_by_key) :
          OneOutcome(events_by_key[i].events, coalescer_cfg.net_opposite_trades)
    /\ OneOutcome(last_flush.events, coalescer_cfg.net_opposite_trades)
    /\ \A n \in 1..MaxPushed, m \in 1..MaxPushed, net_opposite \in BOOLEAN :
          \A a \in PushedEvents(n), b \in PushedEvents(m) :
              coalesce_key(a, net_opposite) = coalesce_key(b, net_opposite)
                => OneOutcome(<<a, b>>, net_opposite)

(***************************************************************************)
(* Quiet period of a bucket                                                *)
(***************************************************************************)
IdsOf(events) == [i \in 1..Len(events) |-> events[i].event_id]
NoRepeats(ids) == \A i, j \in 1..Len(ids) : ids[i] = ids[j] => i = j
HasBucket(bs, key) == \E i \in 1..Len(bs) : bs[i].key = key
\* The step of the loop that takes an event off the queue, and the step that
\* flushes the next due key.
GetStep == loop.pc = "get" /\ loop'.pc # "get" /\ queue # <<>>
FlushStep == loop.pc = "flush" /\ loop' # loop
\* The loop of main: a flushed bucket is at least coalesce_ms old, goes as a
\* whole and leaves no bucket under its key; an event whose key has no bucket
\* starts one at the current clock, any other joins the bucket of its key
\* without moving first_seen_ms.
LoopQuietPeriod ==
    /\ FlushStep =>
          LET key == Head(loop.due_keys)
              bucket == bucket_of(buckets, key)
          IN /\ now_ms >= bucket.first_seen_ms + copy_cfg.coalesce_ms
             /\ flushed'.key = key
             /\ IdsOf(flushed'.events) = IdsOf(bucket.events)
             /\ ~HasBucket(buckets', key)
             /\ \A i \in 1..Len(buckets) :
                   buckets[i].key # key => \E j \in 1..Len(buckets') : buckets'[j] = buckets[i]
    /\ GetStep =>
          LET event == Head(queue)
              key == coalesce_key(event, copy_cfg.net_opposite_trades)
          IN IF HasBucket(buckets, key)
             THEN /\ bucket_of(buckets', key).first_seen_ms
                       = bucket_of(buckets, key).first_seen_ms
                  /\ bucket_of(buckets', key).events
                       = Append(bucket_of(buckets, key).events, event)
             ELSE bucket_of(buckets', key)
                    = [key |-> key, events |-> <<event>>, first_seen_ms |-> now_ms]
\* IntentNetCoalescer: a timer ends no earlier than its wake time and takes
\* every event of its key; a push to a key without a timer starts one that
\* wakes coalesce_ms later.
TimerQuietPeriod ==
    /\ \A t \in timers \ timers' :
          /\ now_ms >= t.wake_ms
          /\ events_of(events_by_key', t.key) = <<>>
          /\ flushed_ids' = flushed_ids \o IdsOf(events_of(events_by_key, t.key))
    /\ \A t \in timers' \ timers :
          /\ t.wake_ms = now_ms + coalescer_cfg.coalesce_ms
          /\ Len(events_of(events_by_key', t.key))
               = Len(events_of(events_by_key, t.key)) + 1
\* No event was flushed twice, and no flushed event is still in a bucket.
FlushedOnce ==
    /\ NoRepeats(consumed)
    /\ \A i \in 1..Len(buckets) : \A j \in 1..Len(buckets[i].events) :
          \A k \in 1..Len(consumed) : buckets[i].events[j].event_id # consumed[k]
    /\ NoRepeats(flushed_ids)
    /\ \A i \in 1..Len(events_by_key) : \A j \in 1..Len(events_by_key[i].events) :
          \A k \in 1..Len(flushed_ids) :
              events_by_key[i].events[j].event_id # flushed_ids[k]

\* C27: a bucket is never flushed before first_seen + coalesce_ms; the flush
\* takes all events of the key at once and destroys the bucket; an event
\* that arrives after the flush starts a new bucket with its own quiet
\* period; each event is part of at most one flush.
C27_FlushAfterQuietPeriodOnce ==
    FlushedOnce /\ [][LoopQuietPeriod /\ TimerQuietPeriod /\ FlushedOnce']_vars
\* A bucket was flushed, and an event that arrived after the flush sits alone
\* in a new bucket that starts at the later clock.
C27_Witness ==
    /\ consumed # <<>>
    /\ \E i \in 1..Len(buckets) :
          /\ buckets[i].first_seen_ms >= copy_cfg.coalesce_ms
          /\ Len(buckets[i].events) = 1
          /\ buckets[i].events[1].event_id \notin {consumed[k] : k \in 1..Len(consumed)}

(***************************************************************************)
(* Activity poller: anchor, checkpoint, storage errors                     *)
(***************************************************************************)
\* The place of a row in the activity list, which is newest first; a row is
\* newer than another when it comes earlier in the list.
InActivity(id) == \E i \in 1..Len(activity) : raw_event_id(activity[i]) = id
PosOf(id) == CHOOSE i \in 1..Len(activity) : raw_event_id(activity[i]) = id
Newer(a, b) == InActivity(a) /\ InActivity(b) /\ PosOf(a) < PosOf(b)
\* The ids the poller has published, and how often it published one.
PollerPublications(id) ==
    {i \in 1..Len(enqueueLog) :
        enqueueLog[i].source_path = "activity_api" /\ enqueueLog[i].event_id = id}
PollerPublished ==
    {enqueueLog[i].event_id : i \in {j \in 1..Len(enqueueLog) :
                                       enqueueLog[j].source_path = "activity_api"}}
SeenKeyOf(raw) == build_dedupe_key(PollerEventKey(normalize(raw), raw))
\* Steps of the poller, told apart by what they change.
AnchorStep == poller'.anchor # poller.anchor
SameRun ==
    /\ poller' # poller
    /\ poller'.restarts = poller.restarts /\ poller'.errors = poller.errors
ErrorStep == poller'.errors = poller.errors + 1

\* C28: a poller that starts without a stored checkpoint only stores the id
\* of the newest row of its first non-empty fetch; it marks no row of that
\* fetch seen and publishes none; later it dispatches only rows above the
\* anchor.
C28_FirstFetchOnlyAnchors ==
    /\ [](source_checkpoint = None => processed_events = {} /\ PollerPublished = {})
    /\ [](poller.anchor # "" =>
            \A i \in 1..Len(activity) :
                ~Newer(raw_event_id(activity[i]), poller.anchor) =>
                    /\ raw_event_id(activity[i]) \notin PollerPublished
                    /\ SeenKeyOf(activity[i]) \notin processed_events)
    /\ [][AnchorStep =>
            /\ source_checkpoint = None /\ ~poller.initialized
            /\ source_checkpoint' = raw_event_id(activity[1])
            /\ poller'.last_checkpoint = raw_event_id(activity[1])
            /\ poller'.pc = "fetch" /\ poller'.candidates = <<>>
            /\ processed_events' = processed_events
            /\ queue' = queue /\ enqueueLog' = enqueueLog]_vars
\* The first fetch held two rows, the anchor is the newer one, and a row that
\* came later was published.
C28_Witness ==
    /\ poller.anchor = "e2"
    /\ PollerPublished = {"e3"}
    /\ processed_events = {SeenKeyOf(RawRow(3))}

\* C29: the candidates of a poll are the rows above the checkpoint, oldest
\* first; each processed row, published or already seen, becomes the
\* checkpoint in turn; the checkpoint only moves toward newer rows; the
\* poller publishes a row only when it is above the checkpoint and was not
\* published before.
C29_CheckpointFollowsRowsOldestFirst ==
    /\ [](\A i \in 1..Len(activity) :
            Cardinality(PollerPublications(raw_event_id(activity[i]))) <= 1)
    /\ [][/\ (SameRun /\ poller.pc = "fetch" /\ poller'.pc = "mark_seen") =>
               LET k == IF poller.last_checkpoint # None
                           /\ InActivity(poller.last_checkpoint)
                        THEN PosOf(poller.last_checkpoint)
                        ELSE Len(activity) + 1
               IN /\ Len(poller'.candidates) = k - 1
                  /\ \A i \in 1..(k - 1) : poller'.candidates[i] = activity[k - i]
          /\ (SameRun /\ poller.pc = "mark_seen") =>
               /\ poller'.pc = IF SeenKeyOf(Head(poller.candidates)) \in processed_events
                               THEN "checkpoint" ELSE "publish"
               /\ poller'.candidates = poller.candidates
          /\ (SameRun /\ poller.pc = "publish") =>
               /\ poller'.pc = "checkpoint"
               /\ poller'.candidates = poller.candidates
               /\ enqueueLog' = Append(enqueueLog, normalize(Head(poller.candidates)))
               /\ PollerPublications(raw_event_id(Head(poller.candidates))) = {}
               /\ Newer(raw_event_id(Head(poller.candidates)), source_checkpoint)
          /\ (SameRun /\ poller.pc = "checkpoint") =>
               /\ source_checkpoint' = raw_event_id(Head(poller.candidates))
               /\ poller'.last_checkpoint = source_checkpoint'
               /\ poller'.candidates = Tail(poller.candidates)
          /\ (source_checkpoint' # source_checkpoint /\ source_checkpoint # None) =>
               Newer(source_checkpoint', source_checkpoint)]_vars
\* After a restart the poller met a row it had marked seen, moved the
\* checkpoint over it without publishing it again, and went on to the next.
C29_Witness ==
    /\ poller.skipped = "e2"
    /\ source_checkpoint = "e3"
    /\ Cardinality(PollerPublications("e2")) = 1
    /\ Cardinality(PollerPublications("e3")) = 1

\* C30: when mark_seen raises for a row, the poller does not publish the
\* row, leaves the checkpoint where it was, logs the error and fetches
\* again; the row and the rest of its batch are candidates of the next poll,
\* and the row stays above the checkpoint until it is processed.
C30_MarkSeenErrorKeepsRowForLater ==
    /\ [](poller.failed # "" => Newer(poller.failed, source_checkpoint))
    /\ []((poller.failed # "" /\ poller.pc = "fetch") =>
            \E i \in 1..Len(candidates_of(activity, poller.last_checkpoint)) :
                raw_event_id(candidates_of(activity, poller.last_checkpoint)[i])
                  = poller.failed)
    /\ [][ErrorStep =>
            /\ poller'.failed = raw_event_id(Head(poller.candidates))
            /\ queue' = queue /\ enqueueLog' = enqueueLog
            /\ processed_events' = processed_events
            /\ source_checkpoint' = source_checkpoint
            /\ poller'.last_checkpoint = poller.last_checkpoint
            /\ poller'.pc = "fetch"
            /\ LET next == candidates_of(activity, poller'.last_checkpoint)
               IN \A i \in 1..Len(poller.candidates) :
                     \E j \in 1..Len(next) : next[j] = poller.candidates[i]]_vars
\* A row whose mark_seen had raised was taken up by a later poll, published
\* and made the checkpoint.
C30_Witness ==
    /\ poller.errors = 1
    /\ poller.failed = "" /\ poller.skipped = ""
    /\ source_checkpoint = "e2"
    /\ PollerPublished = {"e2"}

(***************************************************************************)
(* Activity poller: rows that cannot be normalized                         *)
(***************************************************************************)
RowId(n) == "e" \o ToString(n)
\* Row n is upstream, above the anchor, and _normalize makes an event of it.
Dispatchable(n) ==
    /\ poller.anchor # ""
    /\ Newer(RowId(n), poller.anchor)
    /\ normalizes(activity[PosOf(RowId(n))])
\* Row n was published by the poller and the checkpoint is at it or above.
Dispatched(n) ==
    /\ RowId(n) \in PollerPublished
    /\ source_checkpoint = RowId(n) \/ Newer(source_checkpoint, RowId(n))
\* An older row above the checkpoint makes _normalize raise.
BehindRaisingRow(n) ==
    \E i \in 1..Len(activity) :
        /\ Newer(RowId(n), raw_event_id(activity[i]))
        /\ Newer(raw_event_id(activity[i]), poller.anchor)
        /\ normalize_raises(activity[i])

\* C31 as stated: a row that cannot be normalized does not keep the rows
\* after it from being published and checkpointed; every row above the
\* anchor that can be normalized is eventually published and checkpointed.
C31_RowsAfterABadRowAreDispatched ==
    \A n \in 1..MaxFills : Dispatchable(n) ~> Dispatched(n)
\* What holds: the rows that are not behind a row whose numbers do not parse
\* are dispatched, also those behind a row without a market id.
RowsNotBehindARaisingRowAreDispatched ==
    \A n \in 1..MaxFills :
        (Dispatchable(n) /\ ~BehindRaisingRow(n)) ~> Dispatched(n)

(***************************************************************************)
(* Ingress queue: bound, order, drops                                      *)
(***************************************************************************)
\* The events queue.get returned that the model lists (not the backlog).
DeliveredItems == SelectSeq(delivered, LAMBDA e : e # BacklogEvent)
QueueDepth == queue_backlog + Len(queue)
\* The rows whose publication by the poller was dropped.
PollerDrops ==
    {queue_drops[i].event_id : i \in {j \in 1..Len(queue_drops) :
                                        queue_drops[j].source_path = "activity_api"}}
\* A put by the poller or by the socket watcher: the step in which _enqueue
\* is called for event.
PutStep(event) ==
    \/ /\ poller.pc = "publish" /\ poller'.pc = "checkpoint"
       /\ event = normalize(Head(poller.candidates))
    \/ \E n \in ws_feed : n \notin ws_feed' /\ event = normalize_trade(RawRow(n))

\* C32: the queue never holds more than 5000 events; queue.get returns the
\* events in the order they were put; a put on a full queue leaves the queue
\* as it was, is logged as a drop, and the producer goes on; a row dropped
\* by the poller keeps its dedupe row, is never published later, and the
\* checkpoint moves to it.
C32_BoundedFifoQueueDropsWhenFull ==
    /\ [](QueueDepth <= QueueMaxsize)
    /\ [](DeliveredItems \o queue = enqueueLog)
    /\ [](queue_backlog > 0 => DeliveredItems = <<>>)
    /\ [](\A i \in 1..Len(activity) :
            LET raw == activity[i]
            IN raw_event_id(raw) \in PollerDrops =>
                 /\ SeenKeyOf(raw) \in processed_events
                 /\ raw_event_id(raw) \notin PollerPublished
                 /\ \/ poller.pc = "checkpoint" /\ Head(poller.candidates) = raw
                    \/ source_checkpoint = raw_event_id(raw)
                    \/ Newer(source_checkpoint, raw_event_id(raw)))
    /\ [][\A event \in {normalize(RawRow(n)) : n \in 1..MaxFills}
                  \cup {normalize_trade(RawRow(n)) : n \in 1..MaxFills} :
            PutStep(event) =>
              IF QueueDepth < QueueMaxsize
              THEN /\ queue' = Append(queue, event)
                   /\ enqueueLog' = Append(enqueueLog, event)
                   /\ queue_drops' = queue_drops
              ELSE /\ queue' = queue /\ enqueueLog' = enqueueLog
                   /\ queue_drops' = Append(queue_drops, event)
                   /\ processed_events' = processed_events]_vars
\* On a full queue a row of the poller was dropped and the checkpoint moved
\* past it; after a queue.get made room the next row was queued.
C32_Witness ==
    /\ QueueDepth = QueueMaxsize
    /\ PollerDrops = {"e2"}
    /\ source_checkpoint = "e3"
    /\ PollerPublished = {"e3"}
    /\ delivered = <<BacklogEvent>>

(***************************************************************************)
(* Websocket reconnection                                                  *)
(***************************************************************************)
\* The waits are within [1, 30] s, and each is twice the one before it up to
\* the cap.
WaitsDouble ==
    \A i \in 1..Len(ws_waits) :
        /\ ws_waits[i].wait \in 1..max_backoff_s
        /\ ws_waits[i].wait = IF i = 1 THEN 1
                              ELSE Min(2 * ws_waits[i - 1].wait, max_backoff_s)

\* C33 as stated: the wait is 1 s after the first failure and after the
\* first failure that follows an established connection, and otherwise
\* twice the wait before it, capped at 30 s; it is always within [1, 30] s.
C33_BackoffDoublesAndResetsOnConnect ==
    \A i \in 1..Len(ws_waits) :
        /\ ws_waits[i].wait \in 1..max_backoff_s
        /\ ws_waits[i].wait = IF i = 1 \/ ws_waits[i].after_connected THEN 1
                              ELSE Min(2 * ws_waits[i - 1].wait, max_backoff_s)

(***************************************************************************)
(* Threads and the structures they write                                   *)
(***************************************************************************)
\* The pipeline state is written by the main thread only.
PipelineStateOwnedByMain ==
    \A s \in PipelineStructures : writes[s] \subseteq {"main"}

\* C34 as stated: the producer threads write only the state store and the
\* ingress queue; the pipeline state and the map of the metadata cache are
\* written by the main thread only.
C34_ProducersWriteOnlyStoreAndQueue ==
    /\ \A s \in Structures \ {"state_store", "queue"} :
          writes[s] \cap Producers = {}
    /\ \A s \in PipelineStructures \cup {"market_cache"} :
          writes[s] \subseteq {"main"}

(***************************************************************************)
(* SDK submission: one refresh, one retry                                  *)
(***************************************************************************)
\* What the claim says of one submission, in progress or returned.
OneRefreshOneRetry(call) ==
    /\ call.posts <= 2 /\ call.refreshes <= 1
    /\ call.refreshes = 1 =>
          /\ call.posts >= 1 /\ Len(call.errors) >= 1
          /\ lower(call.errors[1]) \in {"unauthorized", "invalid api key"}
    /\ call.posts = 2 => call.refreshes = 1
    /\ (Len(call.errors) >= 1
          /\ lower(call.errors[1]) \notin {"unauthorized", "invalid api key"}) =>
          call.posts = 1 /\ call.refreshes = 0 /\ call.result = "rejected"
    /\ Len(call.errors) = 2 =>
          call.posts = 2 /\ call.refreshes = 1 /\ call.result = "rejected"
    /\ call.result = "acknowledged" => Len(call.errors) = call.posts - 1

\* C35: a submission on the SDK path posts at most twice and refreshes the
\* credentials at most once; the refresh and the retry follow only a first
\* post whose error mentions unauthorized or invalid api key; any other
\* error, and any error of the retry, ends the submission as rejected.
C35_AtMostOneRefreshAndOneRetry ==
    /\ OneRefreshOneRetry(sdk)
    /\ \A i \in 1..Len(sdk_log) : OneRefreshOneRetry(sdk_log[i])
\* A submission whose first post was answered Unauthorized refreshed once,
\* posted again, got the same answer and was rejected.
C35_Witness ==
    /\ sdk.pc = "idle" /\ sdk.result = "rejected"
    /\ sdk.posts = 2 /\ sdk.refreshes = 1
    /\ sdk.errors = <<"Unauthorized", "Unauthorized">>

(***************************************************************************)
(* Daily cap across UTC midnight                                           *)
(***************************************************************************)
\* C36 as stated: only the volume admitted on the current UTC day counts
\* against max_daily_traded_volume_usd, so a call is blocked with
\* daily_cap_exceeded only when today's admitted volume plus the target
\* exceeds the cap.
C36_DailyCapCountsTodayOnly ==
    [][riskSnap'.blocked_reason = "daily_cap_exceeded" =>
         day_admitted + riskIntent'.target_notional_usd
           > sizing.max_daily_traded_volume_usd]_vars

(***************************************************************************)
(* Risk budget and the submission                                          *)
(***************************************************************************)
RiskReasons == {"window_cap_exceeded", "market_cap_exceeded", "daily_cap_exceeded"}

\* The three counters grew by the target of the intent.
BudgetConsumed(intent) ==
    /\ window_notional' =
         [window_notional EXCEPT ![WindowKey(intent.window_id)] =
                                    @ + intent.target_notional_usd]
    /\ market_notional' =
         [market_notional EXCEPT ![intent.market_id] =
                                    @ + intent.target_notional_usd]
    /\ daily_notional' = daily_notional + intent.target_notional_usd

\* C37: processing a bucket that reaches the order client adds the target of
\* the submitted intent to the window, market and daily counters whatever the
\* exchange answers (acknowledged, min_size, rejected); a bucket blocked by
\* the kill switch or by the policy leaves the three counters as they were;
\* and no step of the loop ever lowers a counter.
C37_BudgetCommittedBeforeSubmitNeverRolledBack ==
    /\ [][loop.pc = "flush" =>
            /\ flushed'.orders # <<>> =>
                 /\ flushed'.risk_calls = 1
                 /\ flushed'.orders[1].intent.target_notional_usd > 0
                 /\ BudgetConsumed(flushed'.orders[1].intent)
            /\ (/\ flushed'.emitted
                /\ \/ kill_switch.active
                   \/ /\ flushed'.audit[1].blocked_reason # ""
                      /\ flushed'.audit[1].blocked_reason \notin RiskReasons)
               => /\ flushed'.risk_calls = 0
                  /\ flushed'.orders = <<>>
                  /\ RiskCountersUnchanged]_vars
    /\ [][/\ \A w \in DOMAIN window_notional : window_notional'[w] >= window_notional[w]
          /\ \A k \in DOMAIN market_notional : market_notional'[k] >= market_notional[k]
          /\ daily_notional' >= daily_notional]_vars

\* An order that the exchange turned down for its size, with its budget spent.
C37_Witness ==
    /\ loop.pc \in {"flush", "snapshot"}
    /\ flushed.orders # <<>>
    /\ ~flushed.orders[1].accepted
    /\ flushed.audit[1].submit_error_code = "min_size"
    /\ daily_notional = flushed.orders[1].intent.target_notional_usd
    /\ daily_notional > 0

(***************************************************************************)
(* The kill switch recovers by itself                                      *)
(***************************************************************************)
\* A snapshot cycle that ends while the switch is active.
CycleEndsActive ==
    /\ kill_switch.active
    /\ cycles_active' # cycles_active \/ ~kill_switch'.active

\* C38: in live mode, while the switch is active no order is submitted;
\* every snapshot cycle that ends while it is active reads a window with
\* reject rate 0 and no copy delay; and the switch, whatever its reason, is
\* still active after fewer than recovery_consecutive_snapshots such cycles
\* and inactive after the recovery_consecutive_snapshots-th.
C38_ActiveSwitchRecoversAfterNCycles ==
    /\ [][(~execution.dry_run /\ kill_switch.active) =>
            /\ submit_log' = submit_log
            /\ metrics'.submissions = metrics.submissions
            /\ metrics'.copy_delays = metrics.copy_delays]_vars
    /\ [][(~execution.dry_run /\ CycleEndsActive) =>
            /\ last_emit'.window.reject_rate.num = 0
            /\ last_emit'.window.copy_delay_ms.empty
            /\ kill_switch'.active <=>
                 cycles_active + 1 < thresholds.recovery_consecutive_snapshots]_vars
    /\ [](kill_switch.active =>
            /\ cycles_active < thresholds.recovery_consecutive_snapshots
            /\ healthy_streak = cycles_active)

\* A switch that the error rate activated and that two quiet cycles released.
C38_Witness ==
    /\ self_recovered
    /\ ~kill_switch.active
    /\ thresholds.recovery_consecutive_snapshots = 2
    /\ \E i \in 1..Len(submit_log) : ~submit_log[i].accepted

(***************************************************************************)
(* IntentNetCoalescer: pushes interleaved with running flush tasks         *)
(***************************************************************************)
\* A flush task that has not popped its key yet.
PendingFlush(n) == co_flush[n].pc \in {"sleep", "acquire", "acquire_wait", "pop"}
TakenBy(e) == {i \in 1..Len(co_taken) : co_taken[i].event = e}
Queued(e) == \E k \in TaskKeys : \E i \in 1..Len(co_events_by_key[k]) :
                 co_events_by_key[k][i] = e
Appended(e) == co_push[e].pc = "done"

\* C39: under every interleaving the event loop allows, a key with queued
\* events has a registered timer whose task has not popped yet; at most one
\* task per key is in that state; an appended event is either still queued or
\* was popped by exactly one task, and is popped in the end; and the
\* unregistration in a task's finally removes no timer of another task.
C39_EveryEventTakenByExactlyOneFlush ==
    /\ [](\A k \in TaskKeys :
            /\ co_events_by_key[k] # <<>> =>
                 /\ co_timers[k] # 0
                 /\ PendingFlush(co_timers[k])
                 /\ co_push[co_timers[k]].key = k
            /\ Cardinality({n \in 1..MaxTaskPushes :
                              PendingFlush(n) /\ co_push[n].key = k}) <= 1)
    /\ [](\A e \in 1..MaxTaskPushes :
            /\ Cardinality(TakenBy(e)) <= 1
            /\ Appended(e) => (Queued(e) <=> TakenBy(e) = {}))
    /\ [][\A n \in 1..MaxTaskPushes :
            (co_flush[n].pc = "unregister" /\ co_flush'[n].pc = "done") =>
               \A k \in TaskKeys :
                  (co_timers[k] # 0 /\ co_timers[k] # n) => co_timers'[k] = co_timers[k]]_vars
    /\ \A e \in 1..MaxTaskPushes : Appended(e) ~> (TakenBy(e) # {})

\* A push for a key arrived after the key's first task had popped: the second
\* task took the second event.
C39_Witness ==
    \E i, j \in 1..Len(co_taken) :
        /\ co_taken[i].task # co_taken[j].task
        /\ co_push[co_taken[i].event].key = co_push[co_taken[j].event].key
        /\ co_flush[co_taken[i].task].pc = "done"
        /\ co_flush[co_taken[j].task].pc = "done"

(***************************************************************************)
(* Activity poller: a restart between mark_seen, publish and checkpoint    *)
(***************************************************************************)
\* The poller is between mark_seen and publish of this row.
AboutToPublish(raw) ==
    /\ poller.pc = "publish"
    /\ poller.candidates # <<>>
    /\ Head(poller.candidates) = raw

\* C40 as stated: whatever restarts happen, the poller publishes no row
\* twice, and a row it has marked seen is published or is the row it is
\* about to publish, so that no row is marked seen and left unpublished.
C40_RestartNeitherRepeatsNorLosesAFill ==
    \A i \in 1..Len(activity) :
        /\ Cardinality(PollerPublications(raw_event_id(activity[i]))) <= 1
        /\ SeenKeyOf(activity[i]) \in processed_events =>
             \/ raw_event_id(activity[i]) \in PollerPublished
             \/ AboutToPublish(activity[i])

\* Without a restart the same holds.
NoRestartLosesNoFill ==
    poller.restarts = 0 => C40_RestartNeitherRepeatsNorLosesAFill

==============================================================================
